---- MODULE Spec2Model ----
(***************************************************************************)
(* Model of the boot manager of src/main.py: the AdvancedBootManager core  *)
(* (display order, entry creation, ramdisk, timeout) driving the external  *)
(* tool bcdedit, and the BootManagerApp handlers that call it.             *)
(*                                                                         *)
(* The external boot store is state of the model.  Every subprocess.run    *)
(* of the code is one step: the tool either exits with 0 and applies the   *)
(* command ("ok"), exits non-zero and changes nothing ("fail"), or cannot  *)
(* be spawned at all, in which case subprocess.run raises ("spawn").       *)
(***************************************************************************)
EXTENDS Integers, Sequences, FiniteSets, TLC

VARIABLES
    order,          \* store: displayorder value of {bootmgr}
    entries,        \* store: entry identifier -> its properties (or NoEntry)
    timeout,        \* store: timeout value of {bootmgr}
    pc,             \* position of the running operation, "idle" between calls
    op,             \* the operation running or last completed
    args,           \* its arguments
    ret,            \* its return value as text; "pending" while it runs
    display_order,  \* move_entry_up/down: the list get_display_order returned
    order_list,     \* set_display_order: its order_list parameter
    new_id,         \* add_entry: identifier found in the copy's output
    seconds,        \* set_timeout: its seconds parameter
    entered,        \* set_timeout_dialog: what was last submitted to the dialog
    timeout_var,    \* BootManagerApp.timeout_var, the timeout field's text
    cmds,           \* commands the operation has issued so far, with outcome
    before,         \* stored display order when the operation was called
                    \* (kept only while no other actor has interfered)
    ext,            \* another actor changed the store since the call began
    prev,           \* the move completed just before this call, if it
                    \* returned True undisturbed; NoCall otherwise
    lang_code,      \* AdvancedBootManager.lang_code
    tool_lang,      \* language the tool prints its keys in
    bootdefault,    \* store: default value of {bootmgr} ("" for none)
    default_entry,  \* AdvancedBootManager.default_entry ("None" for None)
    ramdisk_var,    \* BootManagerApp.ramdisk_var, the details pane's ramdisk text
    current_timeout,\* the value get_timeout returned
    properties,     \* the mapping parse_entry_properties returned
    matched         \* the return statement a property lookup left through

vars == <<order, entries, timeout, pc, op, args, ret, display_order,
          order_list, new_id, seconds, entered, timeout_var, cmds, before,
          ext, prev, lang_code, tool_lang, matched, bootdefault, default_entry,
          ramdisk_var, current_timeout, properties>>

\* the external store
store == <<order, entries, timeout>>

\* what a call fixes when it begins
frame == <<op, args, before, ext, prev>>

\* what the display-order, creation, timeout and ramdisk operations leave
\* alone
others == <<lang_code, tool_lang, matched, bootdefault, default_entry, ramdisk_var,
            current_timeout, properties>>

\* locals of the running operation
locals == <<display_order, order_list, new_id, seconds, entered>>

-----------------------------------------------------------------------------
(* Bounds *)

MaxOrder == 3       \* longest stored display order

-----------------------------------------------------------------------------
(* Identifiers and tool outcomes *)

\* Identifiers in the tool's GUID syntax: what r'{[a-fA-F0-9\-]+}' matches.
Guids == {"{a1}", "{b2}"}

\* Symbolic identifiers the tool prints for well-known entries; the code
\* itself passes "{current}" and "{bootmgr}" to the tool.
Symbolic == {"{current}"}

Ids == Guids \cup Symbolic

\* Identifiers the tool mints for copies, in the order it hands them out.
NewIdPool == <<"{c3}", "{d4}", "{e5}">>

\* Every identifier in GUID syntax.
EntryIds == Guids \cup {NewIdPool[i] : i \in 1..Len(NewIdPool)}

\* re.search(r'({[a-fA-F0-9\-]+})', line): the pattern finds a token only
\* if the token is made of hex digits and hyphens.
GuidMatch(tok) == tok \in EntryIds

\* Result of one subprocess.run: exit code 0, exit code non-zero, or an
\* exception because the process could not be started.
Outcomes == {"ok", "fail", "spawn"}

SeqsUpTo(S, n) == UNION {[1..k -> S] : k \in 0..n}

\* What the store may hold as display order.
Orders == SeqsUpTo(Ids, MaxOrder)

\* Lists a caller passes to set_display_order: identifiers it got from the
\* program's own reads, which are all pattern matches.
ArgLists == SeqsUpTo(Guids, MaxOrder)

\* One subprocess.run: the argument vector, the outcome, and the brace
\* token in its stdout where the code looks for one.
CmdOut(name, target, key, val, rc, out) ==
    [name |-> name, target |-> target, key |-> key, val |-> val, rc |-> rc,
     out |-> out]

Cmd(name, target, key, val, rc) == CmdOut(name, target, key, val, rc, "")

-----------------------------------------------------------------------------
(* Entries of the store.  An entry is its properties by key; "" stands for *)
(* a property the entry does not have.                                     *)

Props == {"description", "device", "osdevice", "path", "type",
          "ramdisksdidevice", "ramdisksdipath", "ramdisksdiprocessorarchitecture",
          "resumeobject", "debug", "debugport", "debugbaudrate"}

NoEntry == [exists |-> FALSE, props |-> [p \in Props |-> ""]]

\* The running entry {current}, which bcdedit /copy duplicates.
TemplateProps ==
    [p \in Props |->
        IF p \in {"device", "osdevice"} THEN "partition=C:"
        ELSE IF p = "path" THEN "\\Windows\\system32\\winload.exe"
        ELSE IF p = "type" THEN "osloader"
        ELSE IF p = "description" THEN "Windows"
        ELSE ""]

-----------------------------------------------------------------------------
(* Translated keys, and keys that contain another key *)

\* self.property_translations (lines 31-84)
PropertyTranslations ==
    [en |-> [identifier |-> "identifier", device |-> "device", path |-> "path",
             description |-> "description", type |-> "type", default |-> "default",
             bootmgr |-> "bootmgr", timeout |-> "timeout",
             displayorder |-> "displayorder", osdevice |-> "osdevice"],
     de |-> [identifier |-> "bezeichner", device |-> "gerät", path |-> "pfad",
             description |-> "beschreibung", type |-> "typ", default |-> "standard",
             bootmgr |-> "boot-manager", timeout |-> "zeitlimit",
             displayorder |-> "anzeigereihenfolge", osdevice |-> "osgerät"],
     fr |-> [identifier |-> "identificateur", device |-> "périphérique", path |-> "chemin",
             description |-> "description", type |-> "type", default |-> "défaut",
             bootmgr |-> "gestionnaire de démarrage", timeout |-> "délai d'attente",
             displayorder |-> "ordre d'affichage", osdevice |-> "périphérique os"],
     es |-> [identifier |-> "identificador", device |-> "dispositivo", path |-> "ruta",
             description |-> "descripción", type |-> "tipo", default |-> "predeterminado",
             bootmgr |-> "administrador de arranque", timeout |-> "tiempo de espera",
             displayorder |-> "orden de visualización", osdevice |-> "dispositivo del so"]]

\* Values lang_code can take (lines 87-92)
Langs == DOMAIN PropertyTranslations

\* get_translation: the key itself on a KeyError
GetTranslation(lang, key) ==
    IF lang \in DOMAIN PropertyTranslations /\ key \in DOMAIN PropertyTranslations[lang]
    THEN PropertyTranslations[lang][key]
    ELSE key

\* Keys that contain another key, as the sequence of their parts.
Compounds ==
    [osdevice |-> <<"os", "device">>,
     toolsdisplayorder |-> <<"tools", "displayorder">>,
     ramdisksdidevice |-> <<"ramdisksdi", "device">>,
     ramdisksdipath |-> <<"ramdisksdi", "path">>]
    @@ ("osgerät" :> <<"os", "gerät">>)

Parts(s) == IF s \in DOMAIN Compounds THEN Compounds[s] ELSE <<s>>

\* the text s ends with the text k
EndsWith(s, k) ==
    LET p == Parts(s)
        q == Parts(k)
    IN Len(q) <= Len(p) /\ SubSeq(p, Len(p) - Len(q) + 1, Len(p)) = q

\* k in s
Contains(s, k) ==
    LET p == Parts(s)
        q == Parts(k)
    IN \E i \in 1..(Len(p) - Len(q) + 1) : SubSeq(p, i, i + Len(q) - 1) = q

-----------------------------------------------------------------------------
(* The text bcdedit /enum {bootmgr} prints, as lines.  A line is its key   *)
(* token, the brace token it holds ("" for none) and the run of digits it  *)
(* holds (-1 for none); the blank line has none of them.                   *)

Line(key, tok) == [key |-> key, tok |-> tok, num |-> -1]

NumLine(key, n) == [key |-> key, tok |-> "", num |-> n]

BlankLine == Line("", "")

RECURSIVE OrderLines(_, _)
OrderLines(o, i) ==
    IF i > Len(o) THEN <<>>
    ELSE <<Line(IF i = 1 THEN "displayorder" ELSE "", o[i])>> \o OrderLines(o, i + 1)

BootmgrDump(o, t) ==
    <<Line("identifier", "{bootmgr}")>>
    \o OrderLines(o, 1)
    \o <<Line("toolsdisplayorder", "{memdiag}"), NumLine("timeout", t), BlankLine>>

\* displayorder_key in line.lower() or "displayorder" in line.lower()
HasDisplayOrderKey(lang, line) ==
    \/ Contains(line.key, GetTranslation(lang, "displayorder"))
    \/ Contains(line.key, "displayorder")

\* Mutant: no line ends a section.
IsBlank_Never(line) == FALSE

\* line.strip() is empty
IsBlank(line) == line.key = "" /\ line.tok = ""

\* Mutant: the identifier on the key line itself is not collected.
KeyLineIds_SkipKeyLine(line, acc) == acc

\* The loop body of get_display_order on a line of the key kind: the
\* identifier of the key line itself is taken too.
KeyLineIds(line, acc) == IF GuidMatch(line.tok) THEN Append(acc, line.tok) ELSE acc

RECURSIVE ScanDisplayOrder(_, _, _, _, _)
ScanDisplayOrder(lang, lines, i, display_section, acc) ==
    IF i > Len(lines) THEN acc
    ELSE LET line == lines[i] IN
         IF HasDisplayOrderKey(lang, line)
         THEN ScanDisplayOrder(lang, lines, i + 1, TRUE, KeyLineIds(line, acc))
         ELSE IF display_section /\ ~IsBlank(line)
         THEN ScanDisplayOrder(lang, lines, i + 1, TRUE,
                  IF GuidMatch(line.tok) THEN Append(acc, line.tok) ELSE acc)
         ELSE IF display_section /\ IsBlank(line)
         THEN ScanDisplayOrder(lang, lines, i + 1, FALSE, acc)
         ELSE ScanDisplayOrder(lang, lines, i + 1, display_section, acc)

\* get_display_order: [] when the query exits non-zero or raises.
GetDisplayOrder(lang, rc, stdout) ==
    IF rc # "ok" THEN <<>> ELSE ScanDisplayOrder(lang, stdout, 1, FALSE, <<>>)

\* What get_display_order returns for a stored order when the query works.
Observed(o) == GetDisplayOrder(lang_code, "ok", BootmgrDump(o, 0))

-----------------------------------------------------------------------------
(* Python list helpers *)

InList(x, s) == \E i \in 1..Len(s) : s[i] = x

\* list.index(x): position of the first occurrence (1-based here)
IndexOf(s, x) == CHOOSE i \in 1..Len(s) : s[i] = x /\ \A j \in 1..(i - 1) : s[j] # x

\* Mutant: the two assignments are made one after the other, s[i] = s[j]
\* first, so that both positions end up with the element of position j.
Swap_Sequential(s, i, j) == [k \in 1..Len(s) |-> IF k = i THEN s[j] ELSE s[k]]

\* s[i], s[j] = s[j], s[i]
Swap(s, i, j) == [k \in 1..Len(s) |-> IF k = i THEN s[j] ELSE IF k = j THEN s[i] ELSE s[k]]

-----------------------------------------------------------------------------
(* Call bookkeeping *)

\* Text of an entry field: an integer literal, or text int() rejects.
IntText(n) == [isInt |-> TRUE, val |-> n]

NoCall == [op |-> "none", id |-> "", before |-> <<>>]

MoveOps == {"moveUp", "moveDown"}

\* The call that has just completed, kept while the next one runs.
Snapshot ==
    IF op \in MoveOps /\ ret = "True" /\ ~ext
    THEN [op |-> op, id |-> args.id, before |-> before]
    ELSE NoCall

NotIntText == [isInt |-> FALSE, val |-> 0]

\* No property lookup has returned yet.
NoStrategy == [by |-> "none", key |-> ""]

\* A call begins: name, arguments, and the initial values of what it sets
\* before its first command.
BeginWith(name, a, l, r, s) ==
    /\ pc = "idle"
    /\ op' = name
    /\ args' = a
    /\ ret' = r
    /\ cmds' = <<>>
    /\ before' = order
    /\ ext' = FALSE
    /\ prev' = Snapshot
    /\ display_order' = <<>>
    /\ order_list' = l
    /\ new_id' = ""
    /\ seconds' = s
    /\ entered' = NotIntText
    /\ UNCHANGED <<others, store, timeout_var>>

Begin(name, a, l) == BeginWith(name, a, l, "pending", 0)

-----------------------------------------------------------------------------
(* set_display_order *)

CallSetDisplayOrder(l) ==
    /\ Begin("setDisplayOrder", [list |-> l], l)
    /\ pc' = "sdo_clear"

\* The tool's effect on the stored order.
ToolDeleteOrder(rc, o) == IF rc = "ok" THEN <<>> ELSE o

ToolSetOrder(rc, o, ids) == IF rc = "ok" THEN ids ELSE o

\* Mutant: a failed clear ends the call.
SdoAfterClear_StopOnFailure(rc, l) ==
    IF rc # "ok" THEN [pc |-> "idle", ret |-> "False"]
    ELSE IF l # <<>> THEN [pc |-> "sdo_set", ret |-> "pending"]
    ELSE [pc |-> "idle", ret |-> "True"]

\* Lines 387-396: the clear's exit code is not looked at; an exception
\* leaves through the except clause with False; the set command follows
\* only "if order_list".
SdoAfterClear(rc, l) ==
    IF rc = "spawn" THEN [pc |-> "idle", ret |-> "False"]
    ELSE IF l # <<>> THEN [pc |-> "sdo_set", ret |-> "pending"]
    ELSE [pc |-> "idle", ret |-> "True"]

\* cmd.extend(order_list): the identifiers the set command carries
SdoSetArgs(l) == l

\* Mutant: the set command's exit code is not looked at.
SdoSetResult_IgnoreExit(rc) == IF rc = "spawn" THEN "False" ELSE "True"

\* Mutant: True whatever became of the set command.
SdoSetResult_AlwaysTrue(rc) == "True"

\* return result.returncode == 0 (an exception returns False)
SdoSetResult(rc) == IF rc = "ok" THEN "True" ELSE "False"

SdoClear ==
    /\ pc = "sdo_clear"
    /\ \E rc \in Outcomes :
          /\ cmds' = Append(cmds, Cmd("/deletevalue", "{bootmgr}", "displayorder", <<>>, rc))
          /\ order' = ToolDeleteOrder(rc, order)
          /\ pc' = SdoAfterClear(rc, order_list).pc
          /\ ret' = SdoAfterClear(rc, order_list).ret
    /\ UNCHANGED <<others, entries, timeout, frame, locals, timeout_var>>

SdoSet ==
    /\ pc = "sdo_set"
    /\ \E rc \in Outcomes :
          /\ cmds' = Append(cmds, Cmd("/displayorder", "", "", SdoSetArgs(order_list), rc))
          /\ order' = ToolSetOrder(rc, order, SdoSetArgs(order_list))
          /\ ret' = SdoSetResult(rc)
    /\ pc' = "idle"
    /\ UNCHANGED <<others, entries, timeout, frame, locals, timeout_var>>

-----------------------------------------------------------------------------
(* get_display_order, move_entry_up, move_entry_down *)

CallGetDisplayOrder ==
    /\ Begin("getDisplayOrder", [list |-> <<>>], <<>>)
    /\ pc' = "gdo_read"

GdoRead ==
    /\ pc = "gdo_read"
    /\ \E rc \in Outcomes :
          /\ cmds' = Append(cmds, Cmd("/enum", "{bootmgr}", "", <<>>, rc))
          /\ display_order' = GetDisplayOrder(lang_code, rc, BootmgrDump(order, timeout))
    /\ ret' = "list"
    /\ pc' = "idle"
    /\ UNCHANGED <<others, store, frame, order_list, new_id, seconds, entered, timeout_var>>

\* Mutant: no "index == 0" test; Python's index -1 is the last element.
MoveUpPlan_NoTopCheck(d, id) ==
    IF d = <<>> \/ ~InList(id, d) THEN [pc |-> "idle", ret |-> "False", list |-> <<>>]
    ELSE [pc |-> "sdo_clear", ret |-> "pending",
          list |-> Swap(d, IndexOf(d, id),
                        IF IndexOf(d, id) = 1 THEN Len(d) ELSE IndexOf(d, id) - 1)]

\* Lines 404-410: what move_entry_up does with the list it read.
MoveUpPlan(d, id) ==
    IF d = <<>> \/ ~InList(id, d) THEN [pc |-> "idle", ret |-> "False", list |-> <<>>]
    ELSE IF IndexOf(d, id) = 1 THEN [pc |-> "idle", ret |-> "True", list |-> <<>>]
    ELSE [pc |-> "sdo_clear", ret |-> "pending",
          list |-> Swap(d, IndexOf(d, id), IndexOf(d, id) - 1)]

\* Mutant: only the empty list is tested for; a list without the identifier
\* is written back as it was read.
MoveDownPlan_NoMembershipTest(d, id) ==
    IF d = <<>> THEN [pc |-> "idle", ret |-> "False", list |-> <<>>]
    ELSE IF ~InList(id, d) THEN [pc |-> "sdo_clear", ret |-> "pending", list |-> d]
    ELSE IF IndexOf(d, id) = Len(d) THEN [pc |-> "idle", ret |-> "True", list |-> <<>>]
    ELSE [pc |-> "sdo_clear", ret |-> "pending",
          list |-> Swap(d, IndexOf(d, id), IndexOf(d, id) + 1)]

\* Lines 415-421: what move_entry_down does with the list it read.
MoveDownPlan(d, id) ==
    IF d = <<>> \/ ~InList(id, d) THEN [pc |-> "idle", ret |-> "False", list |-> <<>>]
    ELSE IF IndexOf(d, id) = Len(d) THEN [pc |-> "idle", ret |-> "True", list |-> <<>>]
    ELSE [pc |-> "sdo_clear", ret |-> "pending",
          list |-> Swap(d, IndexOf(d, id), IndexOf(d, id) + 1)]

CallMoveUp(id) ==
    /\ Begin("moveUp", [id |-> id], <<>>)
    /\ pc' = "mu_read"

CallMoveDown(id) ==
    /\ Begin("moveDown", [id |-> id], <<>>)
    /\ pc' = "md_read"

\* The read of a move and what follows it up to the next command.
MoveStep(rc, plan) ==
    /\ cmds' = Append(cmds, Cmd("/enum", "{bootmgr}", "", <<>>, rc))
    /\ display_order' = GetDisplayOrder(lang_code, rc, BootmgrDump(order, timeout))
    /\ order_list' = plan.list
    /\ pc' = plan.pc
    /\ ret' = plan.ret
    /\ UNCHANGED <<others, store, frame, new_id, seconds, entered, timeout_var>>

MoveUpRead ==
    /\ pc = "mu_read"
    /\ \E rc \in Outcomes :
          MoveStep(rc, MoveUpPlan(GetDisplayOrder(lang_code, rc, BootmgrDump(order, timeout)), args.id))

MoveDownRead ==
    /\ pc = "md_read"
    /\ \E rc \in Outcomes :
          MoveStep(rc, MoveDownPlan(GetDisplayOrder(lang_code, rc, BootmgrDump(order, timeout)), args.id))

-----------------------------------------------------------------------------
(* Another actor (another tool, another instance) rewrites the stored order *)

RemoveAt(s, i) == [k \in 1..(Len(s) - 1) |-> IF k < i THEN s[k] ELSE s[k + 1]]

ExternalEdits(o) ==
    {RemoveAt(o, i) : i \in 1..Len(o)}
    \cup (IF Len(o) < MaxOrder THEN {Append(o, x) : x \in Ids} ELSE {})

\* One edit of the list at a time (an identifier taken out, or one added at
\* the end); any change is a sequence of them.  Modelled
\* while an operation runs; between calls a change is only another store
\* for the next call to start from.
ExternalOrder ==
    /\ pc # "idle"
    /\ \E o \in ExternalEdits(order) : order' = o
    /\ ext' = TRUE
    /\ before' = <<>>
    /\ prev' = NoCall
    /\ UNCHANGED <<others, entries, timeout, pc, op, args, ret, locals, timeout_var, cmds>>

-----------------------------------------------------------------------------
(* Initial states *)

\* return 30 (lines 458, 467, 470)
DefaultTimeout == 30

\* An English tool and no default entry.
InitStoreDefault ==
    /\ tool_lang = "en"
    /\ bootdefault = ""

InitStoreRest ==
    /\ entries = [i \in EntryIds |-> NoEntry]
    /\ timeout = DefaultTimeout
    /\ InitStoreDefault

InitProgram ==
    /\ pc = "idle"
    /\ op = "none"
    /\ args = [id |-> ""]
    /\ ret = "none"
    /\ display_order = <<>>
    /\ order_list = <<>>
    /\ new_id = ""
    /\ seconds = 0
    /\ entered = NotIntText
    /\ timeout_var = IntText(timeout)     \* refresh_entries, line 980
    /\ cmds = <<>>
    /\ before = <<>>
    /\ ext = FALSE
    /\ prev = NoCall
    /\ lang_code = "en"                     \* line 87
    /\ default_entry = "None"               \* line 24
    /\ ramdisk_var = "No"
    /\ current_timeout = DefaultTimeout
    /\ properties = <<>>
    /\ matched = NoStrategy

InitOrder ==
    /\ order \in Orders
    /\ InitStoreRest
    /\ InitProgram

NextOrder ==
    \/ \E l \in ArgLists : CallSetDisplayOrder(l)
    \/ SdoClear
    \/ SdoSet
    \/ CallGetDisplayOrder
    \/ GdoRead
    \/ \E id \in Guids : CallMoveUp(id)
    \/ \E id \in Guids : CallMoveDown(id)
    \/ MoveUpRead
    \/ MoveDownRead
    \/ ExternalOrder

SpecOrder == InitOrder /\ [][NextOrder]_vars

-----------------------------------------------------------------------------
(* Reading the log of a call *)

IsClear(c) == c.name = "/deletevalue" /\ c.target = "{bootmgr}" /\ c.key = "displayorder"

IsSetOrder(c) == c.name = "/displayorder"

IsWrite(c) == IsClear(c) \/ IsSetOrder(c)

\* every command of the log ran to an exit code
AllRan(log) == \A i \in 1..Len(log) : log[i].rc \in {"ok", "fail"}

AllOk(log) == \A i \in 1..Len(log) : log[i].rc = "ok"

NoWrite(log) == \A i \in 1..Len(log) : ~IsWrite(log[i])

\* the commands set_display_order itself has issued in the running call
SdoCmds ==
    IF op = "setDisplayOrder" THEN cmds
    ELSE IF op \in MoveOps /\ Len(cmds) >= 1 THEN Tail(cmds)
    ELSE <<>>

Returned(name) == pc = "idle" /\ op = name

-----------------------------------------------------------------------------
(* Claims on the display order, checked under SpecOrder *)

\* C1: when set_display_order's clear command succeeds and its set command
\* then exits non-zero, the call returns False, the store holds no display
\* order (neither the previous nor the requested one), and no further
\* command is issued.
C1_SetFailureLeavesNoOrder ==
    (/\ Len(SdoCmds) >= 2
     /\ IsClear(SdoCmds[1]) /\ SdoCmds[1].rc = "ok"
     /\ IsSetOrder(SdoCmds[2]) /\ SdoCmds[2].rc = "fail"
     /\ ~ext)
    => /\ pc = "idle"
       /\ ret = "False"
       /\ order = <<>>
       /\ order # order_list
       /\ Len(SdoCmds) = 2

C1_Witness ==
    /\ Returned("setDisplayOrder") /\ ~ext
    /\ Len(cmds) = 2 /\ cmds[1].rc = "ok" /\ cmds[2].rc = "fail"
    /\ before # <<>> /\ before # args.list
    /\ order = <<>>

\* C2: set_display_order issues the clear command first and whatever the
\* list is; when its commands run to an exit code it then issues exactly
\* one set-order command carrying the whole list, in the given order, if
\* the list is non-empty, and no set-order command if the list is empty.
C2_ClearThenOneSet ==
    /\ Len(SdoCmds) >= 1 => IsClear(SdoCmds[1])
    /\ \A i \in 2..Len(SdoCmds) : IsSetOrder(SdoCmds[i])
    /\ (Returned("setDisplayOrder") /\ AllRan(cmds))
        => IF args.list # <<>>
           THEN Len(cmds) = 2 /\ IsSetOrder(cmds[2]) /\ cmds[2].val = args.list
           ELSE Len(cmds) = 1
    /\ (pc = "idle" /\ op \in MoveOps /\ order_list # <<>> /\ AllRan(cmds))
        => Len(SdoCmds) = 2 /\ SdoCmds[2].val = order_list

C2_Witness ==
    /\ Returned("setDisplayOrder") /\ AllRan(cmds)
    /\ Len(args.list) = 3 /\ args.list[1] # args.list[2]
    /\ cmds[1].rc = "fail" /\ cmds[2].rc = "ok"
    /\ order = args.list

\* C3: whenever set_display_order is called with an empty list and returns
\* True, the stored display order is empty afterwards, whatever the outcome
\* of the individual commands was.
C3_EmptyOrderEmpties ==
    (Returned("setDisplayOrder") /\ args.list = <<>> /\ ret = "True" /\ ~ext)
    => order = <<>>

\* C4: for an identifier in the display order and not at the top,
\* move_entry_up followed by move_entry_down, both returning True and with
\* no other actor in between, leaves the stored display order equal to the
\* order before the two calls.
C4_UpDownRoundTrip ==
    (/\ Returned("moveDown") /\ ret = "True" /\ ~ext
     /\ prev.op = "moveUp" /\ prev.id = args.id
     /\ InList(prev.id, prev.before)
     /\ prev.before[1] # prev.id)
    => order = prev.before

C6_ReapplyObservedOrder ==
    (/\ Returned("setDisplayOrder") /\ ~ext /\ AllOk(cmds)
     /\ args.list = Observed(before))
    => /\ Observed(order) = args.list
       /\ Observed(args.list) = args.list

C6_Witness ==
    /\ Returned("setDisplayOrder") /\ ~ext /\ AllOk(cmds)
    /\ args.list = Observed(before)
    /\ Len(args.list) = 2
    /\ before # args.list

-----------------------------------------------------------------------------
(* add_entry *)

MaxCreated == 2     \* entries the model lets the tool create

Created(es) == Cardinality({i \in 1..Len(NewIdPool) : es[NewIdPool[i]].exists})

FreshId(es) == NewIdPool[Created(es) + 1]

\* Arguments as the dialog passes them: text, empty when left blank.
CreateArgs ==
    [description : {"New"},
     device : {"", "partition=D:"},
     path : {"", "\\EFI\\loader.efi"},
     type : {"", "bootsector"}]

\* bcdedit /copy {current} /d description
ToolCopy(rc, es, description) ==
    IF rc = "ok"
    THEN [es EXCEPT ![FreshId(es)] =
             [exists |-> TRUE, props |-> [TemplateProps EXCEPT !["description"] = description]]]
    ELSE es

\* Brace token the copy's stdout may hold: on success the new identifier, or
\* none; a failing tool prints what it likes.
CopyStdout(rc, es) ==
    IF rc = "ok" THEN {FreshId(es), ""}
    ELSE IF rc = "fail" THEN {"", "{a1}"}
    ELSE {""}

\* bcdedit /set id key value: only an existing entry can be changed
SetOutcomes(es, id) == IF es[id].exists THEN Outcomes ELSE {"fail", "spawn"}

ToolSet(rc, es, id, key, val) ==
    IF rc = "ok" THEN [es EXCEPT ![id].props[key] = val] ELSE es

\* Mutant: the path is set whether or not one is given.
AeNextPc_PathUntested(stage, a) ==
    IF stage = "copy" /\ a.device # "" THEN "ae_device"
    ELSE IF stage = "device" THEN "ae_osdevice"
    ELSE IF stage \in {"copy", "osdevice"} THEN "ae_path"
    ELSE IF stage \in {"copy", "osdevice", "path"} /\ a.type # "" THEN "ae_type"
    ELSE "idle"

\* Lines 487-512: the follow-up after the given one.
AeNextPc(stage, a) ==
    IF stage = "copy" /\ a.device # "" THEN "ae_device"
    ELSE IF stage = "device" THEN "ae_osdevice"
    ELSE IF stage \in {"copy", "osdevice"} /\ a.path # "" THEN "ae_path"
    ELSE IF stage \in {"copy", "osdevice", "path"} /\ a.type # "" THEN "ae_type"
    ELSE "idle"

AePlan(next, id) ==
    [pc |-> next, ret |-> IF next = "idle" THEN id ELSE "pending", new_id |-> id]

AeFailed == [pc |-> "idle", ret |-> "None", new_id |-> ""]

\* Mutant: the copy's exit code is not tested.
AeCopyPlan_NoExitCheck(rc, tok, a) ==
    IF rc = "spawn" THEN AeFailed
    ELSE IF ~GuidMatch(tok) THEN AeFailed
    ELSE AePlan(AeNextPc("copy", a), tok)

\* Lines 479-486: None unless the copy exited with 0 and printed an identifier.
AeCopyPlan(rc, tok, a) ==
    IF rc # "ok" THEN AeFailed
    ELSE IF ~GuidMatch(tok) THEN AeFailed
    ELSE AePlan(AeNextPc("copy", a), tok)

\* Mutant: a follow-up that exits non-zero ends the call.
AeAfterSet_AbortOnFailure(stage, rc, a, id) ==
    IF rc # "ok" THEN AeFailed
    ELSE AePlan(AeNextPc(stage, a), id)

\* Lines 488-515: a non-zero exit is only printed; an exception returns None.
AeAfterSet(stage, rc, a, id) ==
    IF rc = "spawn" THEN [pc |-> "idle", ret |-> "None", new_id |-> id]
    ELSE AePlan(AeNextPc(stage, a), id)

CallAddEntry(a) ==
    /\ Created(entries) < MaxCreated
    /\ Begin("createEntry", a, <<>>)
    /\ pc' = "ae_copy"

AeCopy ==
    /\ pc = "ae_copy"
    /\ \E rc \in Outcomes : \E tok \in CopyStdout(rc, entries) :
          /\ cmds' = Append(cmds, CmdOut("/copy", "{current}", "/d", args.description, rc, tok))
          /\ entries' = ToolCopy(rc, entries, args.description)
          /\ new_id' = AeCopyPlan(rc, tok, args).new_id
          /\ pc' = AeCopyPlan(rc, tok, args).pc
          /\ ret' = AeCopyPlan(rc, tok, args).ret
    /\ UNCHANGED <<others, order, timeout, frame, display_order, order_list, seconds, entered,
                   timeout_var>>

\* One follow-up: bcdedit /set new_id key val
AeSet(stage, key, val) ==
    \E rc \in SetOutcomes(entries, new_id) :
        /\ cmds' = Append(cmds, Cmd("/set", new_id, key, val, rc))
        /\ entries' = ToolSet(rc, entries, new_id, key, val)
        /\ pc' = AeAfterSet(stage, rc, args, new_id).pc
        /\ ret' = AeAfterSet(stage, rc, args, new_id).ret
        /\ UNCHANGED <<others, order, timeout, frame, locals, timeout_var>>

AeDevice == pc = "ae_device" /\ AeSet("device", "device", args.device)

AeOsdevice == pc = "ae_osdevice" /\ AeSet("osdevice", "osdevice", args.device)

AePath == pc = "ae_path" /\ AeSet("path", "path", args.path)

AeType == pc = "ae_type" /\ AeSet("type", "type", args.type)

InitCreate ==
    /\ order = <<>>
    /\ InitStoreRest
    /\ InitProgram

NextCreate ==
    \/ \E a \in CreateArgs : CallAddEntry(a)
    \/ AeCopy
    \/ AeDevice
    \/ AeOsdevice
    \/ AePath
    \/ AeType

SpecCreate == InitCreate /\ [][NextCreate]_vars

-----------------------------------------------------------------------------
(* Claims on add_entry, checked under SpecCreate *)

KeyVal(k, v) == [key |-> k, val |-> v]

\* The follow-ups add_entry is to issue for its arguments, in order.
ExpectedFollowUps(a) ==
    (IF a.device # "" THEN <<KeyVal("device", a.device), KeyVal("osdevice", a.device)>>
     ELSE <<>>)
    \o (IF a.path # "" THEN <<KeyVal("path", a.path)>> ELSE <<>>)
    \o (IF a.type # "" THEN <<KeyVal("type", a.type)>> ELSE <<>>)

\* C7: when add_entry's template-copy command exits non-zero, add_entry
\* returns None and issues no further command: no set of device, osdevice,
\* path or type is sent.
C7_CopyFailureStops ==
    (op = "createEntry" /\ Len(cmds) >= 1 /\ cmds[1].rc = "fail")
    => /\ pc = "idle"
       /\ ret = "None"
       /\ Len(cmds) = 1
       /\ cmds[1].name = "/copy"

C7_Witness ==
    /\ Returned("createEntry")
    /\ cmds[1].rc = "fail" /\ cmds[1].out # ""
    /\ args.device # "" /\ args.path # "" /\ args.type # ""

\* C8: once the copy has succeeded and yielded an identifier, a non-zero
\* exit of a follow-up set command neither keeps the remaining follow-ups
\* from being issued nor causes a delete: add_entry returns the new
\* identifier and the entry is in the store with the properties whose
\* commands succeeded (the others as the copy left them).
C8_FollowUpFailureTolerated ==
    (/\ Returned("createEntry")
     /\ Len(cmds) >= 1 /\ cmds[1].rc = "ok" /\ GuidMatch(cmds[1].out)
     /\ AllRan(cmds))
    => /\ ret = cmds[1].out
       /\ Len(cmds) = 1 + Len(ExpectedFollowUps(args))
       /\ \A i \in 2..Len(cmds) :
             /\ cmds[i].name = "/set"
             /\ cmds[i].target = ret
             /\ KeyVal(cmds[i].key, cmds[i].val) = ExpectedFollowUps(args)[i - 1]
             /\ entries[ret].props[cmds[i].key] =
                    IF cmds[i].rc = "ok" THEN cmds[i].val ELSE TemplateProps[cmds[i].key]
       /\ entries[ret].exists

C8_Witness ==
    /\ Returned("createEntry")
    /\ Len(cmds) = 5
    /\ cmds[2].rc = "fail" /\ cmds[3].rc = "ok" /\ cmds[4].rc = "fail" /\ cmds[5].rc = "ok"
    /\ ret = cmds[1].out
    /\ entries[ret].props["device"] = "partition=C:"
    /\ entries[ret].props["osdevice"] = "partition=D:"

-----------------------------------------------------------------------------
(* set_timeout, get_timeout and the two handlers of BootManagerApp that    *)
(* call set_timeout                                                        *)

MaxTimeout == 2     \* largest magnitude the user enters

\* minvalue=0 of the askinteger call
DialogMinValue == 0

\* Timeouts the store may hold.
Timeouts == (0..MaxTimeout) \cup {DefaultTimeout}

\* What the user may put into an entry field.
TimeoutTexts == {NotIntText} \cup {IntText(n) : n \in (-MaxTimeout)..MaxTimeout}

\* bcdedit /timeout seconds
ToolSetTimeout(rc, t, s) == IF rc = "ok" THEN s ELSE t

\* match is None
NoMatch == -1

\* re.search(rf'{key}\s+(\d+)', stdout): the digits of the first line that
\* has the key followed by digits.
RECURSIVE SearchNumber(_, _, _)
SearchNumber(lines, key, i) ==
    IF i > Len(lines) THEN NoMatch
    ELSE IF lines[i].key = key /\ lines[i].num >= 0 THEN lines[i].num
    ELSE SearchNumber(lines, key, i + 1)

\* Mutant: the canonical key is tried before the localized one.
GetTimeout_CanonicalFirst(lang, rc, stdout) ==
    IF rc # "ok" THEN DefaultTimeout
    ELSE IF SearchNumber(stdout, "timeout", 1) # NoMatch
    THEN SearchNumber(stdout, "timeout", 1)
    ELSE IF SearchNumber(stdout, GetTranslation(lang, "timeout"), 1) # NoMatch
    THEN SearchNumber(stdout, GetTranslation(lang, "timeout"), 1)
    ELSE DefaultTimeout

\* get_timeout (lines 452-470): 30 when the query exits non-zero or raises;
\* else the match of the localized key, else that of "timeout", else 30.
GetTimeout(lang, rc, stdout) ==
    IF rc # "ok" THEN DefaultTimeout
    ELSE IF SearchNumber(stdout, GetTranslation(lang, "timeout"), 1) # NoMatch
    THEN SearchNumber(stdout, GetTranslation(lang, "timeout"), 1)
    ELSE IF SearchNumber(stdout, "timeout", 1) # NoMatch
    THEN SearchNumber(stdout, "timeout", 1)
    ELSE DefaultTimeout

\* The user edits the timeout field of the main window.
TypeTimeout ==
    /\ pc = "idle"
    /\ \E t \in TimeoutTexts \ {timeout_var} : timeout_var' = t
    /\ UNCHANGED <<others, store, pc, frame, ret, locals, cmds>>

\* Mutant: the handler does not test the sign.
GuiTimeoutPlan_NoSignCheck(text) ==
    IF ~text.isInt THEN [pc |-> "idle", ret |-> "invalid", seconds |-> 0]
    ELSE [pc |-> "st_set", ret |-> "pending", seconds |-> text.val]

\* BootManagerApp.set_timeout, lines 1275-1285: int() of the field, then the
\* sign test, then the call of the core.
GuiTimeoutPlan(text) ==
    IF ~text.isInt THEN [pc |-> "idle", ret |-> "invalid", seconds |-> 0]
    ELSE IF text.val < 0 THEN [pc |-> "idle", ret |-> "rejected", seconds |-> 0]
    ELSE [pc |-> "st_set", ret |-> "pending", seconds |-> text.val]

CallGuiSetTimeout ==
    /\ BeginWith("guiSetTimeout", [text |-> timeout_var], <<>>,
                 GuiTimeoutPlan(timeout_var).ret, GuiTimeoutPlan(timeout_var).seconds)
    /\ pc' = GuiTimeoutPlan(timeout_var).pc

\* line 1299: only the dialog writes the value back into the field
FieldAfterSet(name, rc, s, field) ==
    IF name = "guiSetTimeoutDialog" /\ rc = "ok" THEN IntText(s) ELSE field

\* AdvancedBootManager.set_timeout: one command carrying str(seconds),
\* whatever seconds is.
StSet ==
    /\ pc = "st_set"
    /\ \E rc \in Outcomes :
          /\ cmds' = Append(cmds, Cmd("/timeout", "", "", seconds, rc))
          /\ timeout' = ToolSetTimeout(rc, timeout, seconds)
          /\ ret' = IF rc = "ok" THEN "True" ELSE "False"
          /\ timeout_var' = FieldAfterSet(op, rc, seconds, timeout_var)
    /\ pc' = "idle"
    /\ UNCHANGED <<others, order, entries, frame, locals>>

CallGuiSetTimeoutDialog ==
    /\ Begin("guiSetTimeoutDialog", [text |-> NotIntText], <<>>)
    /\ pc' = "td_read"

\* current_timeout = self.boot_manager.get_timeout(); the dialog opens with
\* it as initial value.
TdRead ==
    /\ pc = "td_read"
    /\ \E rc \in Outcomes :
          /\ cmds' = Append(cmds, Cmd("/enum", "{bootmgr}", "", <<>>, rc))
          /\ entered' = IntText(GetTimeout(lang_code, rc, BootmgrDump(order, timeout)))
    /\ pc' = "td_ask"
    /\ UNCHANGED <<others, store, frame, ret, display_order, order_list, new_id, seconds,
                   timeout_var>>

\* simpledialog.askinteger(..., minvalue=0) on OK: the dialog closes with
\* the value only if the text is an integer not below minvalue; otherwise
\* it warns and stays open.
AskInteger(text, minvalue) ==
    IF ~text.isInt THEN "open"
    ELSE IF text.val < minvalue THEN "open"
    ELSE "value"

\* The user overwrites the text of the open dialog and presses OK.
TdSubmit ==
    /\ pc = "td_ask"
    /\ \E t \in TimeoutTexts \cup {entered} :
          /\ entered' = t
          /\ IF AskInteger(t, DialogMinValue) = "value"
             THEN seconds' = t.val /\ pc' = "st_set"
             ELSE UNCHANGED <<seconds, pc>>
    /\ UNCHANGED <<others, store, frame, ret, display_order, order_list, new_id, timeout_var,
                   cmds>>

\* The user cancels the dialog: askinteger returns None.
TdCancel ==
    /\ pc = "td_ask"
    /\ pc' = "idle"
    /\ ret' = "cancelled"
    /\ UNCHANGED <<others, store, frame, locals, timeout_var, cmds>>

InitTimeout ==
    /\ order = <<>>
    /\ entries = [i \in EntryIds |-> NoEntry]
    /\ timeout \in Timeouts
    /\ InitStoreDefault
    /\ InitProgram

NextTimeout ==
    \/ TypeTimeout
    \/ CallGuiSetTimeout
    \/ StSet
    \/ CallGuiSetTimeoutDialog
    \/ TdRead
    \/ TdSubmit
    \/ TdCancel

SpecTimeout == InitTimeout /\ [][NextTimeout]_vars

-----------------------------------------------------------------------------
(* Claims on the timeout, checked under SpecTimeout *)

IsTimeoutCmd(c) == c.name = "/timeout"

NoTimeoutCmd(log) == \A i \in 1..Len(log) : ~IsTimeoutCmd(log[i])

\* C9: a negative timeout is rejected before any command is issued: the
\* button handler given a negative integer ends having issued no command;
\* the dialog given one stays open with no timeout command issued; and no
\* timeout command with a negative value is ever sent to the tool.
C9_NegativeTimeoutRejected ==
    /\ \A i \in 1..Len(cmds) : IsTimeoutCmd(cmds[i]) => cmds[i].val >= 0
    /\ (op = "guiSetTimeout" /\ args.text.isInt /\ args.text.val < 0)
        => pc = "idle" /\ ret = "rejected" /\ cmds = <<>>
    /\ (op = "guiSetTimeoutDialog" /\ entered.isInt /\ entered.val < 0)
        => pc \in {"td_ask", "idle"} /\ NoTimeoutCmd(cmds)
    /\ pc = "st_set" => seconds >= 0
    /\ timeout >= 0

C9_Witness ==
    /\ Returned("guiSetTimeout")
    /\ args.text = IntText(-1)
    /\ ret = "rejected"
    /\ cmds = <<>>
    /\ timeout = 1

-----------------------------------------------------------------------------
(* add_ramdisk *)

\* Arguments of add_ramdisk: the dialog passes a device and a path that are
\* not empty and one of its architecture choices.
RamdiskArgs ==
    [id : Guids,
     device : {"partition=D:", "partition=E:"},
     path : {"\\boot\\boot.sdi"},
     arch : {"x86", "x64"}]

\* The three commands in the order of lines 583, 587 and 591.
RamdiskKeys == <<"ramdisksdidevice", "ramdisksdipath", "ramdisksdiprocessorarchitecture">>

RamdiskVals(a) == <<a.device, a.path, a.arch>>

\* Lines 595-597: the conjunction of the three exit-code tests.
RdResult(log) ==
    IF \A i \in 1..Len(log) : log[i].rc = "ok" THEN "True" ELSE "False"

\* Mutant: the first command that exits non-zero ends the call.
RdAfterSet_StopOnFailure(n, rc, log) ==
    IF rc # "ok" THEN [pc |-> "idle", ret |-> "False"]
    ELSE IF n < Len(RamdiskKeys) THEN [pc |-> "rd_set", ret |-> "pending"]
    ELSE [pc |-> "idle", ret |-> RdResult(log)]

\* After the n-th command: no exit code is looked at before the return
\* statement; an exception leaves through the except clause with False.
RdAfterSet(n, rc, log) ==
    IF rc = "spawn" THEN [pc |-> "idle", ret |-> "False"]
    ELSE IF n < Len(RamdiskKeys) THEN [pc |-> "rd_set", ret |-> "pending"]
    ELSE [pc |-> "idle", ret |-> RdResult(log)]

CallAddRamdisk(a) ==
    /\ Begin("setRamdisk", a, <<>>)
    /\ pc' = "rd_set"

\* The next of the three commands: bcdedit /set identifier key value
RdSet ==
    /\ pc = "rd_set"
    /\ LET n == Len(cmds) + 1 IN
       \E rc \in SetOutcomes(entries, args.id) :
          LET log == Append(cmds, Cmd("/set", args.id, RamdiskKeys[n], RamdiskVals(args)[n], rc))
          IN /\ cmds' = log
             /\ entries' = ToolSet(rc, entries, args.id, RamdiskKeys[n], RamdiskVals(args)[n])
             /\ pc' = RdAfterSet(n, rc, log).pc
             /\ ret' = RdAfterSet(n, rc, log).ret
    /\ UNCHANGED <<others, order, timeout, frame, locals, timeout_var>>

-----------------------------------------------------------------------------
(* remove_ramdisk *)

\* bcdedit /deletevalue id key: only a value the entry has can be deleted
DeleteOutcomes(es, id, key) ==
    IF es[id].exists /\ es[id].props[key] # "" THEN Outcomes ELSE {"fail", "spawn"}

ToolDeleteValue(rc, es, id, key) ==
    IF rc = "ok" THEN [es EXCEPT ![id].props[key] = ""] ELSE es

\* After the n-th command of remove_ramdisk: no result is kept; line 617
\* returns True, an exception returns False.
RrAfterDelete(n, rc) ==
    IF rc = "spawn" THEN [pc |-> "idle", ret |-> "False"]
    ELSE IF n < Len(RamdiskKeys) THEN [pc |-> "rr_delete", ret |-> "pending"]
    ELSE [pc |-> "idle", ret |-> "True"]

CallRemoveRamdisk(id) ==
    /\ Begin("clearRamdisk", [id |-> id], <<>>)
    /\ pc' = "rr_delete"

\* The next of the three commands: bcdedit /deletevalue identifier key
RrDelete ==
    /\ pc = "rr_delete"
    /\ LET n == Len(cmds) + 1 IN
       \E rc \in DeleteOutcomes(entries, args.id, RamdiskKeys[n]) :
          /\ cmds' = Append(cmds, Cmd("/deletevalue", args.id, RamdiskKeys[n], "", rc))
          /\ entries' = ToolDeleteValue(rc, entries, args.id, RamdiskKeys[n])
          /\ pc' = RrAfterDelete(n, rc).pc
          /\ ret' = RrAfterDelete(n, rc).ret
    /\ UNCHANGED <<others, order, timeout, frame, locals, timeout_var>>

-----------------------------------------------------------------------------

\* {a1} is an entry of the store, {b2} is not.
InitRamdisk ==
    /\ order = <<"{a1}">>
    /\ entries = [i \in EntryIds |->
                     IF i = "{a1}" THEN [exists |-> TRUE, props |-> TemplateProps]
                     ELSE NoEntry]
    /\ timeout = DefaultTimeout
    /\ InitStoreDefault
    /\ InitProgram

NextRamdisk ==
    \/ \E a \in RamdiskArgs : CallAddRamdisk(a)
    \/ RdSet
    \/ \E id \in Guids : CallRemoveRamdisk(id)
    \/ RrDelete

SpecRamdisk == InitRamdisk /\ [][NextRamdisk]_vars

-----------------------------------------------------------------------------
(* Claims on add_ramdisk, checked under SpecRamdisk *)

\* C10: add_ramdisk issues its set commands in the order ramdisk device,
\* ramdisk path, processor architecture, and issues all three whatever exit
\* code the earlier ones had; it returns True exactly when all three exited
\* with zero; and when it returns False the properties whose commands
\* exited with zero are set in the store.
C10_ThreeSetsAndedResult ==
    /\ op = "setRamdisk"
        => /\ Len(cmds) <= 3
           /\ \A i \in 1..Len(cmds) :
                 /\ cmds[i].name = "/set"
                 /\ cmds[i].target = args.id
                 /\ cmds[i].key = RamdiskKeys[i]
                 /\ cmds[i].val = RamdiskVals(args)[i]
    /\ (Returned("setRamdisk") /\ AllRan(cmds)) => Len(cmds) = 3
    /\ Returned("setRamdisk") => (ret = "True" <=> (Len(cmds) = 3 /\ AllOk(cmds)))
    /\ (Returned("setRamdisk") /\ ret = "False")
        => \A i \in 1..Len(cmds) :
              cmds[i].rc = "ok" => entries[args.id].props[cmds[i].key] = cmds[i].val

C10_Witness ==
    /\ Returned("setRamdisk")
    /\ Len(cmds) = 3
    /\ cmds[1].rc = "fail" /\ cmds[2].rc = "ok" /\ cmds[3].rc = "ok"
    /\ ret = "False"
    /\ entries[args.id].props["ramdisksdidevice"] # args.device
    /\ entries[args.id].props["ramdisksdipath"] = args.path
    /\ entries[args.id].props["ramdisksdiprocessorarchitecture"] = args.arch

\* The multi-step mutations of SpecRamdisk.
MultiStepOps == {"setRamdisk", "clearRamdisk"}

SomeOk(log) == \E i \in 1..Len(log) : log[i].rc = "ok"

SomeFailed(log) == \E i \in 1..Len(log) : log[i].rc = "fail"

\* What a command that exited with zero leaves in the property it names.
LeftBy(c) == IF c.name = "/set" THEN c.val ELSE ""

\* C11: a multi-step mutation of which some commands exited with zero and
\* at least one exited non-zero returns False; the store holds what the
\* commands that exited with zero wrote, and no command beyond the
\* operation's own three is issued.
C11_PartialFailureReported ==
    (/\ pc = "idle" /\ op \in MultiStepOps
     /\ AllRan(cmds) /\ SomeOk(cmds) /\ SomeFailed(cmds))
    => /\ ret = "False"
       /\ Len(cmds) = 3
       /\ \A i \in 1..Len(cmds) :
             /\ cmds[i].key = RamdiskKeys[i]
             /\ cmds[i].rc = "ok" => entries[args.id].props[cmds[i].key] = LeftBy(cmds[i])

-----------------------------------------------------------------------------
(* set_default_entry, delete_entry, get_entries *)

\* bcdedit /default id: only an existing entry can become the default
ToolSetDefault(rc, dflt, id) == IF rc = "ok" THEN id ELSE dflt

\* return True / return False (lines 430-436)
SdeResult(rc) == IF rc = "ok" THEN "True" ELSE "False"

\* Mutant: the cache is written before the exit code is tested.
SdeCache_BeforeExitCheck(rc, cache, id) == IF rc = "spawn" THEN cache ELSE id

\* Lines 430-431: self.default_entry = identifier only under returncode == 0.
SdeCache(rc, cache, id) == IF rc = "ok" THEN id ELSE cache

CallSetDefaultEntry(id) ==
    /\ Begin("setDefault", [id |-> id], <<>>)
    /\ pc' = "sde_set"

SdeSet ==
    /\ pc = "sde_set"
    /\ \E rc \in SetOutcomes(entries, args.id) :
          /\ cmds' = Append(cmds, Cmd("/default", args.id, "", "", rc))
          /\ bootdefault' = ToolSetDefault(rc, bootdefault, args.id)
          /\ default_entry' = SdeCache(rc, default_entry, args.id)
          /\ ret' = SdeResult(rc)
    /\ pc' = "idle"
    /\ UNCHANGED <<store, frame, locals, timeout_var, lang_code, tool_lang, matched, ramdisk_var,
                   current_timeout, properties>>

\* bcdedit /delete id removes the entry; references to it in the display
\* order are pruned by the tool or left dangling.
ToolDeleteEntry(rc, es, id) == IF rc = "ok" THEN [es EXCEPT ![id] = NoEntry] ELSE es

RECURSIVE Without(_, _)
Without(o, id) ==
    IF o = <<>> THEN <<>>
    ELSE (IF Head(o) = id THEN <<>> ELSE <<Head(o)>>) \o Without(Tail(o), id)

OrdersAfterDelete(rc, o, id) == IF rc = "ok" THEN {o, Without(o, id)} ELSE {o}

\* return result.returncode == 0 (line 551); False from the except clause
DelResult(rc) == IF rc = "ok" THEN "True" ELSE "False"

CallDeleteEntry(id) ==
    /\ Begin("deleteEntry", [id |-> id], <<>>)
    /\ pc' = "del_run"

DelRun ==
    /\ pc = "del_run"
    /\ \E rc \in SetOutcomes(entries, args.id) :
          /\ cmds' = Append(cmds, Cmd("/delete", args.id, "", "", rc))
          /\ entries' = ToolDeleteEntry(rc, entries, args.id)
          /\ \E o \in OrdersAfterDelete(rc, order, args.id) : order' = o
          /\ ret' = DelResult(rc)
    /\ pc' = "idle"
    /\ UNCHANGED <<others, timeout, frame, locals, timeout_var>>

\* get_entries: result.stdout on exit code 0, None otherwise (lines 123-130)
GeResult(rc) == IF rc = "ok" THEN "text" ELSE "None"

CallGetEntries ==
    /\ Begin("getEntries", [id |-> ""], <<>>)
    /\ pc' = "ge_run"

GeRun ==
    /\ pc = "ge_run"
    /\ \E rc \in Outcomes :
          /\ cmds' = Append(cmds, Cmd("/enum", "", "/v", "", rc))
          /\ ret' = GeResult(rc)
    /\ pc' = "idle"
    /\ UNCHANGED <<others, store, frame, locals, timeout_var>>

\* Both entries exist and are in the display order; either may be the default.
InitDefault ==
    /\ order = <<"{a1}", "{b2}">>
    /\ entries = [i \in EntryIds |->
                     IF i \in Guids THEN [exists |-> TRUE, props |-> TemplateProps]
                     ELSE NoEntry]
    /\ timeout = DefaultTimeout
    /\ tool_lang = "en"
    /\ bootdefault \in Guids
    /\ InitProgram

NextDefault ==
    \/ \E id \in Guids : CallSetDefaultEntry(id)
    \/ SdeSet
    \/ \E id \in Guids : CallDeleteEntry(id)
    \/ DelRun
    \/ CallGetEntries
    \/ GeRun

SpecDefault == InitDefault /\ [][NextDefault]_vars

-----------------------------------------------------------------------------
(* Claims on the single-command operations, checked under SpecDefault *)

\* What an operation returns when its command exits non-zero.
ResultOnNonZeroExit(name) ==
    IF name = "setDefault" THEN SdeResult("fail")
    ELSE IF name = "deleteEntry" THEN DelResult("fail")
    ELSE GeResult("fail")

\* C12: an operation whose command could not be spawned returns a value
\* different from the one it returns when the command ran and exited
\* non-zero.
C12_SpawnFailureDistinct ==
    (/\ pc = "idle" /\ op \in {"setDefault", "deleteEntry", "getEntries"}
     /\ Len(cmds) = 1 /\ cmds[1].rc = "spawn")
    => ret # ResultOnNonZeroExit(op)

\* C14: set_default_entry issues exactly one command, bcdedit /default id;
\* the cached default becomes id when that command exits with zero and
\* keeps its value when the command exits non-zero or cannot be spawned.
C14_DefaultCacheFollowsExit ==
    /\ [](Returned("setDefault")
            => /\ Len(cmds) = 1
               /\ cmds[1].name = "/default" /\ cmds[1].target = args.id
               /\ (cmds[1].rc = "ok" => default_entry = args.id /\ ret = "True")
               /\ (cmds[1].rc # "ok" => ret = "False"))
    /\ [][pc = "sde_set"
            => /\ pc' = "idle"
               /\ default_entry' = IF cmds'[1].rc = "ok" THEN args.id ELSE default_entry]_vars

C14_Witness ==
    /\ Returned("setDefault")
    /\ cmds[1].rc = "fail"
    /\ default_entry \in Guids
    /\ default_entry # args.id
    /\ entries[args.id].exists

-----------------------------------------------------------------------------
(* get_timeout on the texts the boot-manager query may print *)

\* Keys a line of the dump may carry for the timeout.
TimeoutKeys == {PropertyTranslations[l]["timeout"] : l \in Langs}

\* A line with one of the keys, with a number after it or without.
TimeoutLines == {NumLine(k, n) : k \in TimeoutKeys, n \in (-1)..MaxTimeout}

\* The dump of {bootmgr} with no, one or two such lines.
TimeoutDump(ls) == <<Line("identifier", "{bootmgr}")>> \o ls \o <<BlankLine>>

TimeoutDumps == {TimeoutDump(ls) : ls \in SeqsUpTo(TimeoutLines, 2)}

\* What the query prints; nothing when it exits non-zero or does not run.
EnumStdout(rc, texts) == IF rc = "ok" THEN texts ELSE {<<>>}

CallGetTimeout ==
    /\ Begin("getTimeout", [id |-> ""], <<>>)
    /\ pc' = "gt_read"

GtRead ==
    /\ pc = "gt_read"
    /\ \E rc \in Outcomes : \E stdout \in EnumStdout(rc, TimeoutDumps) :
          /\ cmds' = Append(cmds, CmdOut("/enum", "{bootmgr}", "", "", rc, stdout))
          /\ current_timeout' = GetTimeout(lang_code, rc, stdout)
    /\ ret' = "int"
    /\ pc' = "idle"
    /\ UNCHANGED <<store, frame, locals, timeout_var, lang_code, tool_lang, matched, bootdefault,
                   default_entry, ramdisk_var, properties>>

InitGetTimeout ==
    /\ order = <<>>
    /\ entries = [i \in EntryIds |-> NoEntry]
    /\ timeout = DefaultTimeout
    /\ bootdefault = ""
    /\ pc = "idle"
    /\ op = "none"
    /\ args = [id |-> ""]
    /\ ret = "none"
    /\ display_order = <<>>
    /\ order_list = <<>>
    /\ new_id = ""
    /\ seconds = 0
    /\ entered = NotIntText
    /\ timeout_var = IntText(timeout)
    /\ cmds = <<>>
    /\ before = <<>>
    /\ ext = FALSE
    /\ prev = NoCall
    /\ lang_code \in Langs
    /\ tool_lang = lang_code
    /\ default_entry = "None"
    /\ ramdisk_var = "No"
    /\ current_timeout = DefaultTimeout
    /\ properties = <<>>
    /\ matched = NoStrategy

NextGetTimeout ==
    \/ CallGetTimeout
    \/ GtRead

SpecGetTimeout == InitGetTimeout /\ [][NextGetTimeout]_vars

\* Lines of a text that hold the key followed by a number.
Hits(lines, key) == {i \in 1..Len(lines) : lines[i].key = key /\ lines[i].num >= 0}

First(S) == CHOOSE i \in S : \A j \in S : i <= j

\* C15: get_timeout always returns an integer: the number after the
\* localized timeout key when the dump has one, else the number after the
\* canonical key when the dump has one, and 30 when the dump has neither,
\* when the query exits non-zero, and when it cannot be run.
C15_TimeoutOrDefault ==
    Returned("getTimeout")
    => LET c == cmds[1]
           loc == Hits(c.out, PropertyTranslations[lang_code]["timeout"])
           can == Hits(c.out, "timeout")
       IN /\ ret = "int"
          /\ Len(cmds) = 1
          /\ current_timeout =
                IF c.rc # "ok" THEN 30
                ELSE IF loc # {} THEN c.out[First(loc)].num
                ELSE IF can # {} THEN c.out[First(can)].num
                ELSE 30

C15_Witness ==
    /\ Returned("getTimeout")
    /\ lang_code = "de"
    /\ cmds[1].rc = "ok"
    /\ Len(cmds[1].out) = 4
    /\ cmds[1].out[2] = NumLine("timeout", 2)
    /\ cmds[1].out[3] = NumLine("zeitlimit", 1)
    /\ current_timeout = 1

-----------------------------------------------------------------------------
(* The text bcdedit /enum id /v prints for an entry, and the lookups in it. *)
(* A line is its key token and the value after it.  Keys that contain      *)
(* another key are written as the sequence of their parts, so that "is a   *)
(* substring of" can be computed.                                          *)

EntryLine(key, val) == [key |-> key, val |-> val]

\* Order in which the tool prints the properties of an entry.
DumpOrder ==
    <<"device", "path", "description", "type", "osdevice", "resumeobject",
      "ramdisksdidevice", "ramdisksdipath", "ramdisksdiprocessorarchitecture">>

RECURSIVE PropLines(_, _, _)
PropLines(tl, props, i) ==
    IF i > Len(DumpOrder) THEN <<>>
    ELSE (IF props[DumpOrder[i]] = "" THEN <<>>
          ELSE <<EntryLine(GetTranslation(tl, DumpOrder[i]), props[DumpOrder[i]])>>)
         \o PropLines(tl, props, i + 1)

\* The heading the tool prints above an entry ("Windows Boot Loader").
HeaderLine == EntryLine("Windows", "Boot Loader")

EntryDump(tl, id, e) ==
    <<HeaderLine, EntryLine(GetTranslation(tl, "identifier"), id)>>
    \o PropLines(tl, e.props, 1)

\* bcdedit /enum id /v: only an existing entry can be printed
EnumOutcomes(es, id) == IF es[id].exists THEN Outcomes ELSE {"fail", "spawn"}

\* get_entry_info: None (here the empty text, equally "not info") when the
\* query exits non-zero or raises
GetEntryInfo(rc, stdout) == IF rc # "ok" THEN <<>> ELSE stdout

\* re.search(rf'{key}\s+(.+)', info): lines whose key token ends with key
KeyHits(info, key) == {i \in 1..Len(info) : EndsWith(info[i].key, key)}

\* 'a' in key.lower() or b in key.lower(), over properties.items()
ItemHits(info, a, b) ==
    {i \in 1..Len(info) : Contains(info[i].key, a) \/ Contains(info[i].key, b)}

\* The three strategies of a lookup: localized key, second key, substring
\* of a parsed key; none of them hitting gives the sentinel.
Lookup(info, first, second, none) ==
    IF info = <<>> THEN none
    ELSE IF KeyHits(info, first) # {} THEN info[First(KeyHits(info, first))].val
    ELSE IF KeyHits(info, second) # {} THEN info[First(KeyHits(info, second))].val
    ELSE IF ItemHits(info, first, second) # {}
    THEN info[First(ItemHits(info, first, second))].val
    ELSE none

GetEntryDescription(lang, info) ==
    Lookup(info, GetTranslation(lang, "description"), "description", "Unknown")

\* lines 222-238: the device key, then the osdevice key
GetEntryDevice(lang, info) ==
    IF info = <<>> THEN ""
    ELSE IF KeyHits(info, GetTranslation(lang, "device")) # {}
    THEN info[First(KeyHits(info, GetTranslation(lang, "device")))].val
    ELSE IF KeyHits(info, GetTranslation(lang, "osdevice")) # {}
    THEN info[First(KeyHits(info, GetTranslation(lang, "osdevice")))].val
    ELSE IF ItemHits(info, "device", GetTranslation(lang, "device")) # {}
    THEN info[First(ItemHits(info, "device", GetTranslation(lang, "device")))].val
    ELSE ""

GetEntryPath(lang, info) == Lookup(info, GetTranslation(lang, "path"), "path", "")

\* Mutant: no sentinel for a failed query.
GetEntryType_NoSentinel(lang, info) ==
    Lookup(info, GetTranslation(lang, "type"), "type", "")

GetEntryType(lang, info) == Lookup(info, GetTranslation(lang, "type"), "type", "Unknown")

\* check_ramdisk: one of the three parameter names occurs in the text
CheckRamdisk(info) ==
    \E i \in 1..Len(info) :
        \E param \in {"ramdisksdidevice", "ramdisksdipath", "ramdisksdiprocessorarchitecture"} :
            Contains(info[i].key, param)

\* Values that hold '.efi' or 'uefi'
EfiTexts == {"\\EFI\\loader.efi"}

\* check_uefi: '.efi' or 'uefi' occurs in the text
CheckUefi(info) == \E i \in 1..Len(info) : info[i].val \in EfiTexts

-----------------------------------------------------------------------------
(* partition_exists, has_missing_path_or_device and the read operations    *)

\* device.lower().startswith("partition="): the designator after the "="
Partitions ==
    ("partition=C:" :> "C:") @@ ("partition=D:" :> "D:") @@ ("partition=E:" :> "E:")

\* Drives whose root os.path.exists finds.
ExistingDrives == {"C:"}

\* partition_exists: True for a device that is no partition reference
PartitionExists(device) ==
    IF device \in DOMAIN Partitions THEN Partitions[device] \in ExistingDrives ELSE TRUE

\* s.lower() == "unknown"
IsUnknown(s) == s \in {"unknown", "Unknown", "UNKNOWN"}

\* has_missing_path_or_device, lines 314-318
HasMissing(device, path) ==
    \/ device = "" \/ path = "" \/ IsUnknown(device) \/ IsUnknown(path)
    \/ (device \in DOMAIN Partitions /\ ~PartitionExists(device))

BoolText(b) == IF b THEN "True" ELSE "False"

ReadOps == {"isMissing", "isUefi", "hasRamdisk", "getDescription", "getType"}

\* get_entry_info calls an operation makes: has_missing_path_or_device asks
\* for the device and for the path, each with a query of its own.
NumReads(name) == IF name = "isMissing" THEN 2 ELSE 1

\* What the operation returns, from the texts its queries gave it.
ReadResult(name, lang, log) ==
    IF name = "isMissing"
    THEN BoolText(HasMissing(GetEntryDevice(lang, log[1].out), GetEntryPath(lang, log[2].out)))
    ELSE IF name = "isUefi" THEN BoolText(CheckUefi(log[1].out))
    ELSE IF name = "hasRamdisk" THEN BoolText(CheckRamdisk(log[1].out))
    ELSE IF name = "getDescription" THEN GetEntryDescription(lang, log[1].out)
    ELSE GetEntryType(lang, log[1].out)

CallRead(name, id) ==
    /\ Begin(name, [id |-> id], <<>>)
    /\ pc' = "info_read"

\* One get_entry_info of the running operation, and its return after the
\* last one.
InfoRead ==
    /\ pc = "info_read"
    /\ \E rc \in EnumOutcomes(entries, args.id) :
          LET info == GetEntryInfo(rc, EntryDump(tool_lang, args.id, entries[args.id]))
              log == Append(cmds, CmdOut("/enum", args.id, "/v", "", rc, info))
          IN /\ cmds' = log
             /\ IF Len(log) < NumReads(op)
                THEN UNCHANGED <<pc, ret>>
                ELSE pc' = "idle" /\ ret' = ReadResult(op, lang_code, log)
    /\ UNCHANGED <<others, store, frame, locals, timeout_var>>

\* Properties the entry {a1} may have in the store.
ReadProps ==
    {[p \in Props |->
         IF p = "device" THEN dv
         ELSE IF p = "path" THEN pt
         ELSE IF p = "osdevice" THEN od
         ELSE IF p = "ramdisksdidevice" THEN rd
         ELSE IF p = "ramdisksdipath" THEN rp
         ELSE IF p = "type" THEN ty
         ELSE IF p = "description" THEN "Windows"
         ELSE ""] :
       dv \in {"", "partition=C:", "partition=D:", "Unknown"},
       pt \in {"", "\\Windows\\system32\\winload.exe", "\\EFI\\loader.efi"},
       od \in {"", "partition=C:"},
       rd \in {"", "partition=C:"},
       rp \in {"", "\\boot\\boot.sdi"},
       ty \in {"", "osloader"}}

\* {a1} is an entry; {b2} is in the display order but is no entry.
InitRead ==
    /\ order = <<"{a1}", "{b2}">>
    /\ \E props \in ReadProps :
          entries = [i \in EntryIds |->
                        IF i = "{a1}" THEN [exists |-> TRUE, props |-> props] ELSE NoEntry]
    /\ timeout = DefaultTimeout
    /\ InitStoreDefault
    /\ InitProgram

NextRead ==
    \/ \E name \in ReadOps : \E id \in Guids : CallRead(name, id)
    \/ InfoRead

SpecRead == InitRead /\ [][NextRead]_vars

-----------------------------------------------------------------------------
(* Claims on the read operations, checked under SpecRead *)

NoneOk(log) == \A i \in 1..Len(log) : log[i].rc # "ok"

\* What each read operation is to return for an identifier whose query fails.
OnFailedQuery ==
    [isMissing |-> "True", isUefi |-> "False", hasRamdisk |-> "False",
     getDescription |-> "Unknown", getType |-> "Unknown"]

\* C17: for an identifier whose per-identifier query fails, every read
\* operation returns: isMissing True, isUefi and hasRamdisk False, the
\* description and type lookups "Unknown".
C17_DanglingReferenceTolerated ==
    /\ (pc = "idle" /\ op \in ReadOps /\ NoneOk(cmds)) => ret = OnFailedQuery[op]
    /\ (pc = "idle" /\ op \in ReadOps) => Len(cmds) = NumReads(op)

C17_Witness ==
    /\ Returned("getType")
    /\ args.id = "{b2}" /\ InList("{b2}", order) /\ ~entries["{b2}"].exists
    /\ cmds[1].rc = "fail"
    /\ ret = "Unknown"

\* C18: isMissing is True exactly when the entry's device is absent or the
\* unknown sentinel, or its path is absent or the unknown sentinel, or its
\* device is a partition reference whose drive root does not exist (the
\* queries having worked); so its value is the same for entries that differ
\* only in their ramdisk settings.
C18_MissingExactly ==
    (Returned("isMissing") /\ AllOk(cmds))
    => LET e == entries[args.id].props
       IN ret = BoolText(\/ e["device"] = "" \/ IsUnknown(e["device"])
                         \/ e["path"] = "" \/ IsUnknown(e["path"])
                         \/ (e["device"] \in DOMAIN Partitions
                             /\ Partitions[e["device"]] \notin ExistingDrives))

-----------------------------------------------------------------------------
(* parse_entry_properties and list_identifiers *)

\* s.lower(), for the texts of the model that are not lower case already
LowerCase == ("Windows" :> "windows") @@ ("{A1}" :> "{a1}")

Lower(s) == IF s \in DOMAIN LowerCase THEN LowerCase[s] ELSE s

\* Lines whose value holds a token the identifier pattern matches.
GuidHits(info) == {i \in 1..Len(info) : GuidMatch(info[i].val)}

Last(S) == CHOOSE i \in S : \A j \in S : j <= i

\* Mutant: the identifier is taken from the last match in the text.
IdentifierOf_LastMatch(info) == info[Last(GuidHits(info))].val

\* re.search(r'({[a-fA-F0-9\-]+})', entry_info).group(1): the first match
IdentifierOf(info) == info[First(GuidHits(info))].val

\* parse_entry_properties: every line gives properties[key.lower()] = value,
\* a later line replacing an earlier one with the same key; then the
\* identifier pattern's match, if any, is stored under 'identifier'.
ParseEntryProperties(info) ==
    LET keys == {Lower(info[i].key) : i \in 1..Len(info)}
        byLine == [k \in keys |->
                      info[Last({i \in 1..Len(info) : Lower(info[i].key) = k})].val]
    IN IF info = <<>> THEN <<>>
       ELSE IF GuidHits(info) = {} THEN byLine
       ELSE [k \in keys \cup {"identifier"} |->
                IF k = "identifier" THEN IdentifierOf(info) ELSE byLine[k]]

\* The block of {bootmgr} in bcdedit /enum /v: its default and display order.
BootmgrBlock(tl, o, dflt) ==
    <<EntryLine(GetTranslation(tl, "identifier"), "{bootmgr}")>>
    \o (IF dflt = "" THEN <<>> ELSE <<EntryLine(GetTranslation(tl, "default"), dflt)>>)
    \o [i \in 1..Len(o) |->
           EntryLine(IF i = 1 THEN GetTranslation(tl, "displayorder") ELSE "", o[i])]

RECURSIVE EntryBlocks(_, _, _)
EntryBlocks(tl, es, ids) ==
    IF ids = <<>> THEN <<>>
    ELSE (IF es[Head(ids)].exists THEN EntryDump(tl, Head(ids), es[Head(ids)]) ELSE <<>>)
         \o EntryBlocks(tl, es, Tail(ids))

\* stdout of bcdedit /enum /v: the boot manager, then every entry
FullDump(tl, o, dflt, es) ==
    BootmgrBlock(tl, o, dflt) \o EntryBlocks(tl, es, <<"{a1}", "{b2}">> \o NewIdPool)

\* lines 160-163: the first occurrence of each match, in text order
RECURSIVE Unique(_, _)
Unique(toks, acc) ==
    IF toks = <<>> THEN acc
    ELSE Unique(Tail(toks), IF InList(Head(toks), acc) THEN acc ELSE Append(acc, Head(toks)))

RECURSIVE FindAllGuids(_, _)
FindAllGuids(text, i) ==
    IF i > Len(text) THEN <<>>
    ELSE (IF GuidMatch(text[i].val) THEN <<text[i].val>> ELSE <<>>) \o FindAllGuids(text, i + 1)

\* list_identifiers: [] when get_entries gave nothing
ListIdentifiers(output) == Unique(FindAllGuids(output, 1), <<>>)

\* The caller lists the identifiers and asks for the entry of one of them.
CallListThenGet ==
    /\ Begin("listThenGet", [id |-> ""], <<>>)
    /\ pc' = "li_read"

LiRead ==
    /\ pc = "li_read"
    /\ \E rc \in Outcomes :
          LET output == GetEntryInfo(rc, FullDump(tool_lang, order, bootdefault, entries))
          IN /\ cmds' = Append(cmds, CmdOut("/enum", "", "/v", "", rc, output))
             /\ IF ListIdentifiers(output) = <<>>
                THEN pc' = "idle" /\ ret' = "empty"
                ELSE pc' = "li_get" /\ ret' = "pending"
    /\ UNCHANGED <<others, store, frame, locals, timeout_var>>

LiGet ==
    /\ pc = "li_get"
    /\ \E i \in 1..Len(ListIdentifiers(cmds[1].out)) :
          LET id == ListIdentifiers(cmds[1].out)[i] IN
          \E rc \in EnumOutcomes(entries, id) :
             LET info == GetEntryInfo(rc, EntryDump(tool_lang, id, entries[id]))
             IN /\ cmds' = Append(cmds, CmdOut("/enum", id, "/v", "", rc, info))
                /\ properties' = ParseEntryProperties(info)
    /\ pc' = "idle"
    /\ ret' = "dict"
    /\ UNCHANGED <<store, frame, locals, timeout_var, lang_code, tool_lang, matched, bootdefault,
                   default_entry, ramdisk_var, current_timeout>>

\* Entries that may refer to one another; {b2} may be referred to without
\* being an entry.
ListProps == {[TemplateProps EXCEPT !["resumeobject"] = r] : r \in {""} \cup Guids}

InitList ==
    /\ order \in SeqsUpTo(Guids, 2)
    /\ \E pa \in ListProps : \E eb \in {NoEntry} \cup {[exists |-> TRUE, props |-> pb] : pb \in ListProps} :
          entries = [i \in EntryIds |->
                        IF i = "{a1}" THEN [exists |-> TRUE, props |-> pa]
                        ELSE IF i = "{b2}" THEN eb
                        ELSE NoEntry]
    /\ timeout = DefaultTimeout
    /\ tool_lang = "en"
    /\ bootdefault \in {""} \cup Guids
    /\ InitProgram

NextList ==
    \/ CallListThenGet
    \/ LiRead
    \/ LiGet

SpecList == InitList /\ [][NextList]_vars

\* C19 as stated: with a reachable tool, for every identifier id that
\* list_identifiers returns, parsing the per-identifier dump of id gives a
\* non-empty mapping whose 'identifier' is id.
C19_ListedIdParses_Original ==
    (/\ Returned("listThenGet") /\ Len(cmds) = 2
     /\ cmds[1].rc # "spawn" /\ cmds[2].rc # "spawn")
    => /\ DOMAIN properties # {}
       /\ "identifier" \in DOMAIN properties
       /\ properties["identifier"] = cmds[2].target

\* C19 amended: for every identifier id that list_identifiers returns and
\* whose per-identifier query exits with zero, parsing the dump of id gives
\* a non-empty mapping whose 'identifier' is id, also when the dump mentions
\* other identifiers.
C19_ListedIdParses ==
    (/\ Returned("listThenGet") /\ Len(cmds) = 2
     /\ cmds[2].rc = "ok")
    => /\ DOMAIN properties # {}
       /\ "identifier" \in DOMAIN properties
       /\ properties["identifier"] = cmds[2].target

C19_Witness ==
    /\ Returned("listThenGet") /\ Len(cmds) = 2
    /\ cmds[2].rc = "ok" /\ cmds[2].target = "{a1}"
    /\ entries["{a1}"].props["resumeobject"] = "{b2}"
    /\ "resumeobject" \in DOMAIN properties
    /\ properties["resumeobject"] = "{b2}"
    /\ properties["identifier"] = "{a1}"

-----------------------------------------------------------------------------
(* parse_entry_properties on blocks in the supported languages *)

\* What a block says, whatever the language of its keys.
BlockValues ==
    [id : {"{a1}"},
     description : {"Windows", "Linux"},
     device : {"partition=C:", "partition=D:"},
     default : Guids]

\* The same block with the key tokens of language l for description, device
\* and default.
LocaleBlock(l, v) ==
    <<EntryLine("identifier", v.id),
      EntryLine(PropertyTranslations[l]["device"], v.device),
      EntryLine(PropertyTranslations[l]["description"], v.description),
      EntryLine(PropertyTranslations[l]["default"], v.default)>>

CallParseEntryBlock(l, v) ==
    /\ Begin("parseEntryBlock", [lang |-> l, values |-> v], <<>>)
    /\ pc' = "pb_parse"

PbParse ==
    /\ pc = "pb_parse"
    /\ properties' = ParseEntryProperties(LocaleBlock(args.lang, args.values))
    /\ pc' = "idle"
    /\ ret' = "dict"
    /\ UNCHANGED <<store, frame, locals, timeout_var, cmds, lang_code, tool_lang, matched,
                   bootdefault, default_entry, ramdisk_var, current_timeout>>

InitParse ==
    /\ order = <<>>
    /\ InitStoreRest
    /\ InitProgram

NextParse ==
    \/ \E l \in Langs : \E v \in BlockValues : CallParseEntryBlock(l, v)
    \/ PbParse

SpecParse == InitParse /\ [][NextParse]_vars

\* C20: parse_entry_properties returns the same mapping (same keys, same
\* values) for the blocks that differ only in the language of the key
\* tokens of description, device and default.
C20_SameAcrossLocales ==
    Returned("parseEntryBlock")
    => \A l \in Langs : ParseEntryProperties(LocaleBlock(l, args.values)) = properties

-----------------------------------------------------------------------------
(* move_entry_up and move_entry_down with identifiers as a caller writes   *)
(* them                                                                    *)

\* Identifiers a caller may pass: as the tool prints them, or in upper case.
CallerIds == Guids \cup {"{A1}"}

NextCase ==
    \/ \E id \in CallerIds : CallMoveUp(id)
    \/ \E id \in CallerIds : CallMoveDown(id)
    \/ MoveUpRead
    \/ MoveDownRead
    \/ SdoClear
    \/ SdoSet

SpecCase == InitOrder /\ [][NextCase]_vars

\* the identifier occurs in the list, letter case aside
InListAnyCase(x, s) == \E i \in 1..Len(s) : Lower(s[i]) = Lower(x)

\* C16: move_entry_up(id) and move_entry_down(id) find id in the display
\* order they read when the order holds an identifier that differs from id
\* only in letter case: they do not return False for an identifier not in
\* the list.
C16_CaseInsensitiveMatch ==
    (/\ pc = "idle" /\ op \in MoveOps
     /\ Len(cmds) >= 1 /\ cmds[1].rc = "ok"
     /\ InListAnyCase(args.id, display_order))
    => ~(Len(cmds) = 1 /\ ret = "False")

-----------------------------------------------------------------------------
(* BootManagerApp: the add-ramdisk dialog's on_ok and the timeout button,  *)
(* with refresh_entries and update_entry_details.  Of what the window      *)
(* shows, the timeout field and the ramdisk text of the details pane are   *)
(* modelled.                                                               *)

\* The entry selected in the list, which the handlers act on.
Selected == "{a1}"

\* on_ok, lines 1347-1352: refresh_entries and update_entry_details only
\* when add_ramdisk returned True.
GuiAfterAddRamdisk(plan) ==
    IF plan.pc # "idle" THEN "grd_set"
    ELSE IF plan.ret = "True" THEN "gui_list"
    ELSE "idle"

CallGuiAddRamdisk(a) ==
    /\ a.id = Selected
    /\ Begin("guiSetRamdisk", a, <<>>)
    /\ pc' = "grd_set"

\* add_ramdisk called from on_ok: the next of its three commands
GrdSet ==
    /\ pc = "grd_set"
    /\ LET n == Len(cmds) + 1 IN
       \E rc \in SetOutcomes(entries, args.id) :
          LET log == Append(cmds, Cmd("/set", args.id, RamdiskKeys[n], RamdiskVals(args)[n], rc))
          IN /\ cmds' = log
             /\ entries' = ToolSet(rc, entries, args.id, RamdiskKeys[n], RamdiskVals(args)[n])
             /\ ret' = RdAfterSet(n, rc, log).ret
             /\ pc' = GuiAfterAddRamdisk(RdAfterSet(n, rc, log))
    /\ UNCHANGED <<others, order, timeout, frame, locals, timeout_var>>

\* refresh_entries, lines 947-950: nothing more when no identifier is listed
GuiList ==
    /\ pc = "gui_list"
    /\ \E rc \in Outcomes :
          LET output == GetEntryInfo(rc, FullDump(tool_lang, order, bootdefault, entries))
          IN /\ cmds' = Append(cmds, CmdOut("/enum", "", "/v", "", rc, output))
             /\ pc' = IF ListIdentifiers(output) = <<>> THEN "gui_details" ELSE "gui_timeout"
    /\ UNCHANGED <<others, store, frame, ret, locals, timeout_var>>

\* refresh_entries, lines 979-980
GuiTimeout ==
    /\ pc = "gui_timeout"
    /\ \E rc \in Outcomes :
          /\ cmds' = Append(cmds, Cmd("/enum", "{bootmgr}", "", "", rc))
          /\ timeout_var' = IntText(GetTimeout(lang_code, rc, BootmgrDump(order, timeout)))
    /\ pc' = "gui_details"
    /\ UNCHANGED <<others, store, frame, ret, locals>>

\* update_entry_details, lines 997-1000: clear_details when the query fails
GuiDetails ==
    /\ pc = "gui_details"
    /\ \E rc \in EnumOutcomes(entries, args.id) :
          /\ cmds' = Append(cmds, Cmd("/enum", args.id, "/v", "", rc))
          /\ IF rc = "ok"
             THEN pc' = "gui_ramdisk" /\ UNCHANGED ramdisk_var
             ELSE pc' = "idle" /\ ramdisk_var' = ""
    /\ UNCHANGED <<store, frame, ret, locals, timeout_var, lang_code, tool_lang, matched, bootdefault,
                   default_entry, current_timeout, properties>>

\* update_entry_details, lines 1013-1014
GuiRamdisk ==
    /\ pc = "gui_ramdisk"
    /\ \E rc \in EnumOutcomes(entries, args.id) :
          LET info == GetEntryInfo(rc, EntryDump(tool_lang, args.id, entries[args.id]))
          IN /\ cmds' = Append(cmds, Cmd("/enum", args.id, "/v", "", rc))
             /\ ramdisk_var' = IF CheckRamdisk(info) THEN "Yes" ELSE "No"
    /\ pc' = "idle"
    /\ UNCHANGED <<store, frame, ret, locals, timeout_var, lang_code, tool_lang, matched, bootdefault,
                   default_entry, current_timeout, properties>>

NextGui ==
    \/ \E a \in RamdiskArgs : CallGuiAddRamdisk(a)
    \/ GrdSet
    \/ GuiList
    \/ GuiTimeout
    \/ GuiDetails
    \/ GuiRamdisk
    \/ TypeTimeout
    \/ CallGuiSetTimeout
    \/ StSet

SpecGui == InitRamdisk /\ [][NextGui]_vars

\* Commands that write to the store, and commands that read it.
IsStoreWrite(c) == c.name \in {"/set", "/timeout"}

IsStoreRead(c) == c.name = "/enum"

\* C13: when a handler has returned and one of its write commands changed
\* the store, a read of the store follows the last write of the handler:
\* what the window shows is read again after the write, also when the
\* write is reported as failed after partly applying.
C13_RereadAfterWrite ==
    (/\ pc = "idle" /\ op \in {"guiSetRamdisk", "guiSetTimeout"}
     /\ \E i \in 1..Len(cmds) : IsStoreWrite(cmds[i]) /\ cmds[i].rc = "ok")
    => \E j \in 1..Len(cmds) :
          /\ IsStoreRead(cmds[j])
          /\ \A i \in 1..Len(cmds) : IsStoreWrite(cmds[i]) => i < j

-----------------------------------------------------------------------------
(* enable_kernel_debugging *)

\* Arguments of enable_kernel_debugging; "" stands for an argument that is
\* not given (None and "" both fail the tests "if port" and "if baudrate").
DebugArgs ==
    [id : Guids,
     port : {"", "1"},
     baudrate : {"", "115200"}]

\* Lines 653-667: the command after the given one.
KdNextPc(stage, a) ==
    IF stage = "debug" /\ a.port # "" THEN "kd_port"
    ELSE IF stage \in {"debug", "port"} /\ a.baudrate # "" THEN "kd_baud"
    ELSE "idle"

\* Mutant: the results of the follow-ups are anded into the result.
KdResult_AllResults(log) ==
    IF \A i \in 1..Len(log) : log[i].rc = "ok" THEN "True" ELSE "False"

\* return debug_result.returncode == 0 (line 667)
KdResult(log) == IF log[1].rc = "ok" THEN "True" ELSE "False"

\* After a command: a non-zero exit is at most printed; an exception leaves
\* through the except clause with False (line 670).
KdAfterSet(stage, rc, a, log) ==
    IF rc = "spawn" THEN [pc |-> "idle", ret |-> "False"]
    ELSE IF KdNextPc(stage, a) # "idle" THEN [pc |-> KdNextPc(stage, a), ret |-> "pending"]
    ELSE [pc |-> "idle", ret |-> KdResult(log)]

CallEnableKernelDebugging(a) ==
    /\ Begin("enableKernelDebugging", a, <<>>)
    /\ pc' = "kd_debug"

\* One command of enable_kernel_debugging: bcdedit /set identifier key val
KdSet(stage, key, val) ==
    \E rc \in SetOutcomes(entries, args.id) :
        LET log == Append(cmds, Cmd("/set", args.id, key, val, rc))
        IN /\ cmds' = log
           /\ entries' = ToolSet(rc, entries, args.id, key, val)
           /\ pc' = KdAfterSet(stage, rc, args, log).pc
           /\ ret' = KdAfterSet(stage, rc, args, log).ret
           /\ UNCHANGED <<others, order, timeout, frame, locals, timeout_var>>

KdDebug == pc = "kd_debug" /\ KdSet("debug", "debug", "on")

KdPort == pc = "kd_port" /\ KdSet("port", "debugport", args.port)

KdBaud == pc = "kd_baud" /\ KdSet("baud", "debugbaudrate", args.baudrate)

NextDebug ==
    \/ \E a \in DebugArgs : CallEnableKernelDebugging(a)
    \/ KdDebug
    \/ KdPort
    \/ KdBaud

SpecDebug == InitRamdisk /\ [][NextDebug]_vars

\* The follow-ups enable_kernel_debugging is to issue for its arguments.
ExpectedDebugFollowUps(a) ==
    (IF a.port # "" THEN <<KeyVal("debugport", a.port)>> ELSE <<>>)
    \o (IF a.baudrate # "" THEN <<KeyVal("debugbaudrate", a.baudrate)>> ELSE <<>>)

\* the first command is the debug-on command, and a port or baud-rate
\* command is only in the log when the argument is given
DebugCommandsAsGiven ==
    op = "enableKernelDebugging"
    => /\ Len(cmds) >= 1
          => cmds[1].name = "/set" /\ cmds[1].target = args.id
             /\ KeyVal(cmds[1].key, cmds[1].val) = KeyVal("debug", "on")
       /\ \A i \in 2..Len(cmds) :
             /\ cmds[i].name = "/set" /\ cmds[i].target = args.id
             /\ cmds[i].key = "debugport" => args.port # "" /\ cmds[i].val = args.port
             /\ cmds[i].key = "debugbaudrate"
                   => args.baudrate # "" /\ cmds[i].val = args.baudrate
             /\ cmds[i].key \in {"debugport", "debugbaudrate"}

\* C21 as stated: enable_kernel_debugging returns True exactly when its
\* debug-on command exited with zero; the port and baud-rate commands are
\* issued only when the respective argument is given.
C21_DebugOnDecides_Original ==
    /\ DebugCommandsAsGiven
    /\ Returned("enableKernelDebugging") => (ret = "True" <=> cmds[1].rc = "ok")

\* C21 amended: when every command enable_kernel_debugging issues runs to
\* an exit code, it returns True exactly when the debug-on command exited
\* with zero, whatever the follow-ups exited with; the port and baud-rate
\* commands are issued exactly when the respective argument is given, in
\* that order; a follow-up that cannot be started makes it return False.
C21_DebugOnDecides ==
    /\ DebugCommandsAsGiven
    /\ (Returned("enableKernelDebugging") /\ AllRan(cmds))
        => /\ ret = "True" <=> cmds[1].rc = "ok"
           /\ Len(cmds) = 1 + Len(ExpectedDebugFollowUps(args))
           /\ \A i \in 2..Len(cmds) :
                 KeyVal(cmds[i].key, cmds[i].val) = ExpectedDebugFollowUps(args)[i - 1]
    /\ (Returned("enableKernelDebugging") /\ ~AllRan(cmds)) => ret = "False"

C21_Witness ==
    /\ Returned("enableKernelDebugging")
    /\ Len(cmds) = 3
    /\ cmds[1].rc = "ok" /\ cmds[2].rc = "fail" /\ cmds[3].rc = "fail"
    /\ ret = "True"
    /\ entries[args.id].props["debug"] = "on"
    /\ entries[args.id].props["debugport"] = ""

-----------------------------------------------------------------------------
(* The four property lookups on dumps whose language may differ from the   *)
(* program's                                                               *)

\* The lookup operations and the canonical key each is about.
PropOf ==
    [getDescription |-> "description", getDevice |-> "device",
     getPath |-> "path", getType |-> "type"]

LookupOps == DOMAIN PropOf

\* The key of the second re.search of a lookup: the literal English key in
\* get_entry_description, get_entry_path and get_entry_type (lines 208, 250,
\* 269), the translated osdevice key in get_entry_device (line 228).
SecondKey(lang, prop) ==
    IF prop = "device" THEN GetTranslation(lang, "osdevice") ELSE prop

\* The return statement a lookup leaves through, with the key whose search
\* hit: the first re.search, the second re.search, the loop over the parsed
\* properties, or the final return.
StrategyOf(info, first, second, canonical) ==
    IF info = <<>> THEN NoStrategy
    ELSE IF KeyHits(info, first) # {} THEN [by |-> "first", key |-> first]
    ELSE IF KeyHits(info, second) # {} THEN [by |-> "second", key |-> second]
    ELSE IF ItemHits(info, canonical, first) # {} THEN [by |-> "parsed", key |-> canonical]
    ELSE NoStrategy

LookupResult(name, lang, info) ==
    IF name = "getDescription" THEN GetEntryDescription(lang, info)
    ELSE IF name = "getDevice" THEN GetEntryDevice(lang, info)
    ELSE IF name = "getPath" THEN GetEntryPath(lang, info)
    ELSE GetEntryType(lang, info)

CallLookup(name, id) ==
    /\ Begin(name, [id |-> id], <<>>)
    /\ pc' = "lk_read"

\* The get_entry_info of a lookup and the lookup in what it gave.
LkRead ==
    /\ pc = "lk_read"
    /\ \E rc \in EnumOutcomes(entries, args.id) :
          LET info == GetEntryInfo(rc, EntryDump(tool_lang, args.id, entries[args.id]))
          IN /\ cmds' = Append(cmds, CmdOut("/enum", args.id, "/v", "", rc, info))
             /\ ret' = LookupResult(op, lang_code, info)
             /\ matched' = StrategyOf(info, GetTranslation(lang_code, PropOf[op]),
                                      SecondKey(lang_code, PropOf[op]), PropOf[op])
    /\ pc' = "idle"
    /\ UNCHANGED <<store, frame, locals, timeout_var, lang_code, tool_lang, bootdefault,
                   default_entry, ramdisk_var, current_timeout, properties>>

\* Properties the entry {a1} may have.
LookupProps ==
    {[p \in Props |->
         IF p = "device" THEN dv
         ELSE IF p = "osdevice" THEN od
         ELSE IF p = "path" THEN pt
         ELSE IF p = "type" THEN ty
         ELSE IF p = "description" THEN ds
         ELSE IF p = "ramdisksdipath" THEN rp
         ELSE ""] :
       dv \in {"", "partition=D:"},
       od \in {"", "partition=C:"},
       pt \in {"", "\\Windows\\system32\\winload.exe"},
       ty \in {"", "osloader"},
       ds \in {"", "Windows"},
       rp \in {"", "\\boot\\boot.sdi"}}

\* Languages the tool prints in whose keys are single tokens.
ToolLangs == {"en", "de"}

\* The program runs in any supported language; the tool prints in its own.
InitLookup ==
    /\ order = <<"{a1}">>
    /\ \E props \in LookupProps :
          entries = [i \in EntryIds |->
                        IF i = "{a1}" THEN [exists |-> TRUE, props |-> props] ELSE NoEntry]
    /\ timeout = DefaultTimeout
    /\ bootdefault = ""
    /\ pc = "idle"
    /\ op = "none"
    /\ args = [id |-> ""]
    /\ ret = "none"
    /\ display_order = <<>>
    /\ order_list = <<>>
    /\ new_id = ""
    /\ seconds = 0
    /\ entered = NotIntText
    /\ timeout_var = IntText(timeout)
    /\ cmds = <<>>
    /\ before = <<>>
    /\ ext = FALSE
    /\ prev = NoCall
    /\ lang_code \in Langs
    /\ tool_lang \in ToolLangs
    /\ default_entry = "None"
    /\ ramdisk_var = "No"
    /\ current_timeout = DefaultTimeout
    /\ properties = <<>>
    /\ matched = NoStrategy

NextLookup ==
    \/ \E name \in LookupOps : \E id \in Guids : CallLookup(name, id)
    \/ LkRead

SpecLookup == InitLookup /\ [][NextLookup]_vars

\* The strategies as the three-tier lookup is to try them for a property:
\* the localized key followed by a value, the canonical key followed by a
\* value, a substring match over the parsed keys.
ExpectedStrategy(info, lang, prop) ==
    IF KeyHits(info, GetTranslation(lang, prop)) # {}
    THEN [by |-> "first", key |-> GetTranslation(lang, prop)]
    ELSE IF KeyHits(info, prop) # {}
    THEN [by |-> "second", key |-> prop]
    ELSE IF ItemHits(info, prop, GetTranslation(lang, prop)) # {}
    THEN [by |-> "parsed", key |-> prop]
    ELSE NoStrategy

\* the dump has the canonical key followed by a value, not the localized one
CanonicalOnly(info, lang, prop) ==
    KeyHits(info, prop) # {} /\ KeyHits(info, GetTranslation(lang, prop)) = {}

\* C22: each of the four lookups (description, device, path, type) returns
\* through the first strategy that hits, in the order localized key,
\* canonical English key, substring over the parsed keys, with the value of
\* the first line that strategy hits; a dump that has the canonical key but
\* not the localized one is resolved by the search for the canonical key.
C22_ThreeStrategiesInOrder ==
    (pc = "idle" /\ op \in LookupOps /\ cmds[1].rc = "ok")
    => LET info == cmds[1].out
           prop == PropOf[op]
       IN /\ matched = ExpectedStrategy(info, lang_code, prop)
          /\ matched.by = "first"
                => ret = info[First(KeyHits(info, matched.key))].val
          /\ CanonicalOnly(info, lang_code, prop)
                => /\ matched = [by |-> "second", key |-> prop]
                   /\ ret = info[First(KeyHits(info, prop))].val

-----------------------------------------------------------------------------
(* get_display_order on the texts the boot-manager query may print *)

MaxLines == 4       \* longest text the query prints, in lines

\* Lines of a boot-manager dump: key lines of the display order (canonical,
\* localized, of the tools menu), continuation lines, other properties,
\* and the blank line.
ScanLines ==
    {Line("displayorder", "{a1}"),
     Line("displayorder", "{current}"),
     Line("anzeigereihenfolge", "{b2}"),
     Line("toolsdisplayorder", "{b2}"),
     Line("", "{a1}"),
     Line("", "{current}"),
     Line("default", "{b2}"),
     NumLine("timeout", DefaultTimeout),
     BlankLine}

ScanDumps == SeqsUpTo(ScanLines, MaxLines)

CallScanDisplayOrder ==
    /\ Begin("getDisplayOrder", [list |-> <<>>], <<>>)
    /\ pc' = "gdo_scan"

\* get_display_order on whatever the query prints
GdoScan ==
    /\ pc = "gdo_scan"
    /\ \E rc \in Outcomes : \E stdout \in EnumStdout(rc, ScanDumps) :
          /\ cmds' = Append(cmds, CmdOut("/enum", "{bootmgr}", "", <<>>, rc, stdout))
          /\ display_order' = GetDisplayOrder(lang_code, rc, stdout)
    /\ ret' = "list"
    /\ pc' = "idle"
    /\ UNCHANGED <<others, store, frame, order_list, new_id, seconds, entered, timeout_var>>

\* The program runs in English or in German.
InitScan ==
    /\ order = <<>>
    /\ entries = [i \in EntryIds |-> NoEntry]
    /\ timeout = DefaultTimeout
    /\ bootdefault = ""
    /\ pc = "idle"
    /\ op = "none"
    /\ args = [id |-> ""]
    /\ ret = "none"
    /\ display_order = <<>>
    /\ order_list = <<>>
    /\ new_id = ""
    /\ seconds = 0
    /\ entered = NotIntText
    /\ timeout_var = IntText(timeout)
    /\ cmds = <<>>
    /\ before = <<>>
    /\ ext = FALSE
    /\ prev = NoCall
    /\ lang_code \in {"en", "de"}
    /\ tool_lang = lang_code
    /\ default_entry = "None"
    /\ ramdisk_var = "No"
    /\ current_timeout = DefaultTimeout
    /\ properties = <<>>
    /\ matched = NoStrategy

NextScan ==
    \/ CallScanDisplayOrder
    \/ GdoScan

SpecScan == InitScan /\ [][NextScan]_vars

\* Line i lies in a display-order section: a line containing the key is at
\* or before it, with no blank line from there up to line i.
InSection(lang, lines, i) ==
    \E k \in 1..i :
        /\ HasDisplayOrderKey(lang, lines[k])
        /\ \A j \in (k + 1)..i : lines[j] # BlankLine

\* Lines of a section that hold an identifier.
SectionIds(lang, lines) ==
    {i \in 1..Len(lines) : InSection(lang, lines, i) /\ GuidMatch(lines[i].tok)}

\* the n-th smallest element of a set of numbers
Nth(S, n) == CHOOSE i \in S : Cardinality({j \in S : j <= i}) = n

-----------------------------------------------------------------------------
(* get_default_entry *)

MaxSections == 2    \* sections of the full dump

\* re.search(rf'{default_key}\s+({{\w+-\w+-\w+-\w+-\w+}})', text): lines that
\* have the translated default key followed by a GUID.
DefaultHits(lang, lines) ==
    {i \in 1..Len(lines) :
        EndsWith(lines[i].key, GetTranslation(lang, "default")) /\ GuidMatch(lines[i].tok)}

\* match.group(1), "" for no match
DefaultMatch(lang, lines) ==
    IF DefaultHits(lang, lines) = {} THEN "" ELSE lines[First(DefaultHits(lang, lines))].tok

\* Mutant: the boot-manager query's text is searched whatever its exit code.
QueryDefault_IgnoreExit(lang, rc, stdout) == DefaultMatch(lang, stdout)

\* Lines 328-334: the search happens only under returncode == 0.
QueryDefault(lang, rc, stdout) == IF rc = "ok" THEN DefaultMatch(lang, stdout) ELSE ""

\* re.split(r'\n\n+', all_entries): the runs of lines between blank lines
RECURSIVE SplitSections(_, _, _)
SplitSections(lines, i, cur) ==
    IF i > Len(lines) THEN <<cur>>
    ELSE IF lines[i] = BlankLine
    THEN (IF i > 1 /\ lines[i - 1] = BlankLine THEN <<>> ELSE <<cur>>)
         \o SplitSections(lines, i + 1, <<>>)
    ELSE SplitSections(lines, i + 1, Append(cur, lines[i]))

\* bootmgr_term in section.lower() or "bootmgr" in section.lower()
Mentions(lang, section) ==
    \E i \in 1..Len(section) :
        \/ section[i].tok = "{bootmgr}"
        \/ section[i].key \in {GetTranslation(lang, "bootmgr"), "bootmgr"}

\* Lines 339-349: the search in the first section that mentions the term
FullDefault(lang, all_entries) ==
    LET sections == SplitSections(all_entries, 1, <<>>)
        hits == {k \in 1..Len(sections) : Mentions(lang, sections[k])}
    IN IF all_entries = <<>> \/ hits = {} THEN ""
       ELSE DefaultMatch(lang, sections[First(hits)])

\* return self.default_entry / return None
FoundOrNone(id) == IF id = "" THEN "None" ELSE id

\* What the boot-manager query prints; {current} is how the tool names the
\* running entry outside a verbose dump.
QueryTexts ==
    {<<Line("identifier", "{bootmgr}"), Line("default", d), BlankLine>> :
        d \in {"{a1}", "{current}"}}
    \cup {<<Line("identifier", "{bootmgr}"), Line("standard", "{b2}"), BlankLine>>,
          <<Line("identifier", "{bootmgr}"), Line("displayorder", "{a1}"), BlankLine>>}

\* Sections of a full dump: the boot manager with a default (English or
\* German key) or without, a heading in German, an entry that refers to
\* another one, and an entry that has a default of its own.
SectionTexts ==
    {<<Line("identifier", "{bootmgr}"), Line("default", "{b2}")>>,
     <<Line("identifier", "{bootmgr}"), Line("standard", "{a1}")>>,
     <<Line("identifier", "{bootmgr}"), Line("displayorder", "{a1}")>>,
     <<Line("boot-manager", ""), Line("standard", "{b2}")>>,
     <<Line("identifier", "{a1}"), Line("resumeobject", "{b2}")>>,
     <<Line("identifier", "{b2}"), Line("default", "{a1}")>>}

RECURSIVE JoinSections(_)
JoinSections(ss) ==
    IF ss = <<>> THEN <<>>
    ELSE IF Len(ss) = 1 THEN Head(ss)
    ELSE Head(ss) \o <<BlankLine>> \o JoinSections(Tail(ss))

FullTexts == {JoinSections(ss) : ss \in SeqsUpTo(SectionTexts, MaxSections)}

\* A command that exits non-zero may still have printed.
QueryStdout(rc, texts) == IF rc = "spawn" THEN {<<>>} ELSE texts

CallGetDefaultEntry ==
    /\ Begin("getDefault", [id |-> ""], <<>>)
    /\ pc' = "gd_query"

\* Lines 324-334 and the except clause of line 351
GdQuery ==
    /\ pc = "gd_query"
    /\ \E rc \in Outcomes : \E stdout \in QueryStdout(rc, QueryTexts) :
          LET id == QueryDefault(lang_code, rc, stdout)
          IN /\ cmds' = Append(cmds, CmdOut("/enum", "{bootmgr}", "", "", rc, stdout))
             /\ IF rc = "spawn"
                THEN pc' = "idle" /\ ret' = "None" /\ UNCHANGED default_entry
                ELSE IF id # ""
                THEN pc' = "idle" /\ ret' = id /\ default_entry' = id
                ELSE pc' = "gd_full" /\ UNCHANGED <<ret, default_entry>>
    /\ UNCHANGED <<store, frame, locals, timeout_var, lang_code, tool_lang, matched, bootdefault,
                   ramdisk_var, current_timeout, properties>>

\* Lines 335-350: get_entries returns None unless its command exits with 0
GdFull ==
    /\ pc = "gd_full"
    /\ \E rc \in Outcomes : \E stdout \in QueryStdout(rc, FullTexts) :
          LET all_entries == GetEntryInfo(rc, stdout)
              id == FullDefault(lang_code, all_entries)
          IN /\ cmds' = Append(cmds, CmdOut("/enum", "", "/v", "", rc, stdout))
             /\ ret' = FoundOrNone(id)
             /\ default_entry' = IF id # "" THEN id ELSE default_entry
    /\ pc' = "idle"
    /\ UNCHANGED <<store, frame, locals, timeout_var, lang_code, tool_lang, matched, bootdefault,
                   ramdisk_var, current_timeout, properties>>

NextGetDefault ==
    \/ CallGetDefaultEntry
    \/ GdQuery
    \/ GdFull

SpecGetDefault == InitScan /\ [][NextGetDefault]_vars

\* The boot-manager query ran to exit code 0 and its text holds a default
\* identifier.
QueryFound(c) ==
    c.rc = "ok" /\ \E i \in 1..Len(c.out) :
        c.out[i].key = PropertyTranslations[lang_code]["default"] /\ c.out[i].tok \in EntryIds

\* The sections of a text that mention the boot manager, as index ranges.
SectionOf(text, i) ==
    {j \in 1..Len(text) :
        /\ text[j] # BlankLine
        /\ \A k \in (IF i < j THEN i ELSE j)..(IF i < j THEN j ELSE i) : text[k] # BlankLine}

MentionLines(text) ==
    {i \in 1..Len(text) :
        \/ text[i].tok = "{bootmgr}"
        \/ text[i].key \in {PropertyTranslations[lang_code]["bootmgr"], "bootmgr"}}

\* Default lines of the first section of the text that mentions the boot
\* manager.
FullFoundLines(c) ==
    IF c.rc # "ok" \/ MentionLines(c.out) = {} THEN {}
    ELSE {j \in SectionOf(c.out, First(MentionLines(c.out))) :
             c.out[j].key = PropertyTranslations[lang_code]["default"]
             /\ c.out[j].tok \in EntryIds}

\* C24: get_default_entry asks for the full dump only when the
\* boot-manager query exited non-zero or its text held no default
\* identifier; it returns the identifier of the first of the two strategies
\* that finds one, None when neither does, and never anything else.
C24_FullDumpOnlyAsFallback ==
    op = "getDefault"
    => /\ Len(cmds) <= 2
       /\ Len(cmds) >= 1 => cmds[1].name = "/enum" /\ cmds[1].target = "{bootmgr}"
       /\ Len(cmds) = 2
             => /\ cmds[2].name = "/enum" /\ cmds[2].key = "/v"
                /\ cmds[1].rc = "fail" \/ (cmds[1].rc = "ok" /\ ~QueryFound(cmds[1]))
       /\ pc = "idle"
             => /\ ret \in EntryIds \cup {"None"}
                /\ QueryFound(cmds[1])
                      => /\ Len(cmds) = 1
                         /\ ret = cmds[1].out[First(DefaultHits(lang_code, cmds[1].out))].tok
                /\ (~QueryFound(cmds[1]) /\ Len(cmds) = 2 /\ FullFoundLines(cmds[2]) # {})
                      => ret = cmds[2].out[First(FullFoundLines(cmds[2]))].tok
                /\ (~QueryFound(cmds[1]) /\ (Len(cmds) = 1 \/ FullFoundLines(cmds[2]) = {}))
                      => ret = "None"

C24_Witness ==
    /\ Returned("getDefault")
    /\ lang_code = "en"
    /\ Len(cmds) = 2
    /\ cmds[1].rc = "ok"
    /\ cmds[1].out[2] = Line("default", "{current}")
    /\ cmds[2].rc = "ok"
    /\ Len(cmds[2].out) = 5
    /\ cmds[2].out[1].tok = "{a1}"
    /\ cmds[2].out[5] = Line("default", "{b2}")
    /\ ret = "{b2}"
    /\ default_entry = "{b2}"

-----------------------------------------------------------------------------
(* Further claims on the moves, checked under SpecOrder *)

\* the running or completed move has gone on to set_display_order
MoveWrites ==
    /\ op \in MoveOps
    /\ Len(cmds) >= 1
    /\ pc \in {"sdo_clear", "sdo_set"} \/ Len(cmds) >= 2

\* number of occurrences of x in s
Count(x, s) == Cardinality({i \in 1..Len(s) : s[i] = x})

\* t is s with the elements at positions i and i + 1 exchanged
AdjacentSwap(s, t, i) ==
    /\ Len(t) = Len(s)
    /\ i \in 1..(Len(s) - 1)
    /\ t[i] = s[i + 1]
    /\ t[i + 1] = s[i]
    /\ \A k \in 1..Len(s) : k \notin {i, i + 1} => t[k] = s[k]

\* C25: whenever move_entry_up or move_entry_down writes, the list it gives
\* set_display_order has the length of the list it read and the same
\* identifiers with the same multiplicities, and differs from it only in
\* two adjacent positions, which are exchanged: the position of the
\* identifier and the one above (move up) or below (move down); that list
\* is what the set-order command carries.
C25_WrittenListIsAdjacentSwap ==
    MoveWrites
    => /\ Len(order_list) = Len(display_order)
       /\ \A x \in Ids : Count(x, order_list) = Count(x, display_order)
       /\ \E i \in 1..(Len(display_order) - 1) :
             /\ AdjacentSwap(display_order, order_list, i)
             /\ IF op = "moveUp" THEN order_list[i] = args.id
                ELSE order_list[i + 1] = args.id
       /\ \A n \in 1..Len(cmds) : IsSetOrder(cmds[n]) => cmds[n].val = order_list

C25_Witness ==
    /\ Returned("moveDown") /\ ~ext
    /\ display_order = <<"{a1}", "{b2}", "{a1}">>
    /\ args.id = "{a1}"
    /\ order_list = <<"{b2}", "{a1}", "{a1}">>
    /\ AllOk(cmds) /\ Len(cmds) = 3
    /\ order = order_list

-----------------------------------------------------------------------------
(* Further claims on add_entry, checked under SpecCreate *)

\* C26: whenever add_entry returns None, the call has created no entry in
\* the store: the step of the template copy that ends the call with None
\* leaves the entries as they were, also when the copy exits with zero and
\* its output holds no identifier; and a call that returns None after its
\* copy has left no entry under the identifier its follow-ups addressed.
C26_NoneMeansNothingCreated ==
    /\ [][(pc = "ae_copy" /\ ret' = "None") => entries' = entries]_vars
    /\ []((Returned("createEntry") /\ ret = "None" /\ Len(cmds) >= 2)
            => ~entries[cmds[2].target].exists)

-----------------------------------------------------------------------------
(* Claims on the moves that fail or are interfered with, under SpecOrder *)

\* C27: when the list a move read is empty (the query failed, or the
\* stored order holds nothing the pattern matches) or does not contain the
\* identifier, move_entry_up and move_entry_down return False right after
\* the read, having issued neither the clear nor the set-order command,
\* and the call leaves the stored order as it was.
C27_MoveFailsWithoutWriting ==
    (/\ op \in MoveOps /\ Len(cmds) >= 1
     /\ display_order = <<>> \/ ~InList(args.id, display_order))
    => /\ pc = "idle"
       /\ ret = "False"
       /\ Len(cmds) = 1
       /\ NoWrite(cmds)
       /\ ~ext => order = before

C27_Witness ==
    /\ Returned("moveDown") /\ ~ext
    /\ args.id = "{b2}"
    /\ cmds[1].rc = "ok"
    /\ display_order = <<"{a1}">>
    /\ order = <<"{current}", "{a1}">>
    /\ ret = "False"

\* C28: when a move that writes returns True after another actor has
\* changed the stored order while the move ran (between the move's read
\* and its write in particular), the stored order is the list the move
\* read with the identifier exchanged with its neighbour: the step of the
\* set-order command replaces whatever the store held by that list, and
\* the move reports True.
C28_LastWriteWins ==
    /\ []((pc = "idle" /\ MoveWrites /\ ext /\ ret = "True")
            => /\ order = order_list
               /\ \E i \in 1..(Len(display_order) - 1) :
                     /\ AdjacentSwap(display_order, order, i)
                     /\ IF op = "moveUp" THEN order[i] = args.id ELSE order[i + 1] = args.id)
    /\ [][(op \in MoveOps /\ pc = "sdo_set" /\ ret' = "True")
            => order' = order_list /\ order_list' = order_list]_vars

C28_Witness ==
    /\ Returned("moveUp") /\ ext /\ ret = "True"
    /\ Len(cmds) = 3
    /\ display_order = <<"{a1}", "{b2}">>
    /\ args.id = "{b2}"
    /\ order = <<"{b2}", "{a1}">>

-----------------------------------------------------------------------------
(* Claims on what get_display_order leaves out, under SpecScan *)

\* the line's key is the displayorder key itself, localized or canonical
IsDisplayOrderKeyLine(lang, line) ==
    line.key \in {PropertyTranslations[lang]["displayorder"], "displayorder"}

\* Line i lies in the display-order section proper: from a line whose key
\* is the displayorder key up to the line before the next blank line.
InDisplayOrderSection(lang, lines, i) ==
    \E k \in 1..i :
        /\ IsDisplayOrderKeyLine(lang, lines[k])
        /\ \A j \in (k + 1)..i : lines[j] # BlankLine

\* C29: get_display_order returns no identifier from a line outside the
\* display-order section: every identifier of the result stands on a line
\* of the section, and the result is no longer than the section has lines
\* with an identifier; lines before the key line and lines after the blank
\* line that ends the section contribute nothing, also when such a line
\* has the displayorder token inside a longer key.
C29_NothingFromOutsideSection ==
    (Returned("getDisplayOrder") /\ Len(cmds) = 1 /\ cmds[1].rc = "ok")
    => LET lines == cmds[1].out
           inside == {i \in 1..Len(lines) :
                         /\ InDisplayOrderSection(lang_code, lines, i)
                         /\ GuidMatch(lines[i].tok)}
       IN /\ Len(display_order) <= Cardinality(inside)
          /\ \A n \in 1..Len(display_order) :
                \E i \in inside : lines[i].tok = display_order[n]

-----------------------------------------------------------------------------
(* The order of add_entry's follow-ups, checked under SpecCreate *)

\* Position of a key in the fixed order of the follow-ups.
FollowUpRank == [device |-> 1, osdevice |-> 2, path |-> 3, type |-> 4]

\* The argument a follow-up's value comes from.
FollowUpArg(a, key) ==
    IF key \in {"device", "osdevice"} THEN a.device
    ELSE IF key = "path" THEN a.path
    ELSE a.type

\* C30: every command add_entry issues after the copy is a set command
\* addressed to the identifier found in the copy's output, issued only
\* after the copy exited with zero; the keys come in the order device,
\* osdevice, path, type, each at most once; a key's command carries the
\* argument it belongs to and is issued only when that argument is not
\* empty; and when all commands ran, each non-empty argument has its
\* commands (both device and osdevice for a device).
C30_FollowUpsInFixedOrder ==
    (op = "createEntry" /\ Len(cmds) >= 1)
    => /\ cmds[1].name = "/copy"
       /\ Len(cmds) >= 2 => cmds[1].rc = "ok" /\ GuidMatch(cmds[1].out)
       /\ \A i \in 2..Len(cmds) :
             /\ cmds[i].name = "/set"
             /\ cmds[i].target = cmds[1].out
             /\ cmds[i].key \in DOMAIN FollowUpRank
             /\ cmds[i].val = FollowUpArg(args, cmds[i].key)
             /\ cmds[i].val # ""
             /\ \A j \in (i + 1)..Len(cmds) :
                   FollowUpRank[cmds[i].key] < FollowUpRank[cmds[j].key]
       /\ (pc = "idle" /\ AllRan(cmds) /\ cmds[1].rc = "ok" /\ GuidMatch(cmds[1].out))
             => \A k \in DOMAIN FollowUpRank :
                   FollowUpArg(args, k) # ""
                   => \E i \in 2..Len(cmds) : cmds[i].key = k

C30_Witness ==
    /\ Returned("createEntry")
    /\ args.device # "" /\ args.path = "" /\ args.type # ""
    /\ Len(cmds) = 4
    /\ cmds[2].key = "device" /\ cmds[2].rc = "fail"
    /\ cmds[3].key = "osdevice" /\ cmds[3].rc = "ok"
    /\ cmds[4].key = "type" /\ cmds[4].rc = "ok"
    /\ ret = cmds[1].out

====
